---- MODULE Spec2Model ----
(***************************************************************************)
(* Model of the Olist ETL pipeline: the multi-statement SQL query runner   *)
(* (src/src/transform.py, _run_df and its helpers) and the loader          *)
(* (src/src/load.py, load and create_compat_views).                        *)
(*                                                                         *)
(* SQL text is modelled as a sequence of lexical tokens.  A token is       *)
(* either a separator ("SEMI" a semicolon, "SP" blanks on a line, "NL" a   *)
(* newline, "CMT" a line comment `-- ...` up to but excluding its newline, *)
(* "BLK" a block comment) or the body of one SQL statement:                *)
(*    dropif_v  DROP VIEW IF EXISTS v                                      *)
(*    drop_v    DROP VIEW v                                                *)
(*    create_v  CREATE VIEW v AS SELECT 1 AS x                             *)
(*    create_w  CREATE VIEW w AS SELECT 2 AS x                             *)
(*    select_v  SELECT * FROM v                                            *)
(*    select_w  SELECT * FROM w                                            *)
(*    with_p    WITH t AS (SELECT :p AS x) SELECT * FROM t                 *)
(*    explain   EXPLAIN SELECT 1                                           *)
(* The store of the query runner is a SQLite database holding the views v  *)
(* and w; a view is "absent" or holds one row, named by its value.         *)
(***************************************************************************)
EXTENDS Integers, Sequences, FiniteSets, TLC

\* ------------------------------------------------------------------ bounds
\* Largest number of statements written in one script file.
MaxStmts == 3

\* Largest number of successive calls of load on one store.
MaxLoads == 2

\* The longest column of the one-column tables given to clean.
MaxRows == 1

\* Largest number of successive calls of save_cleaned on one output directory.
MaxSaves == 2

\* ------------------------------------------------------------------ tokens
WsTokens == {"SP", "NL"}

CommentTokens == {"CMT", "BLK"}

ScriptBodies == {"dropif_v", "drop_v", "create_v", "create_w", "select_v", "with_p", "explain"}

\* Statements of the other listed keywords: they act on a table of the
\* database or on the database file and leave the views alone.
OtherBodies == {"insert_t", "update_t", "delete_t", "alter_t", "pragma", "vacuum"}

Bodies == ScriptBodies \cup {"select_w"} \cup OtherBodies

IsWs(t) == t \in WsTokens

IsBody(t) == t \in Bodies

\* The leading keyword of a statement body, lower-cased (s.lstrip().lower()).
Keyword(b) ==
  CASE b \in {"dropif_v", "drop_v"} -> "drop"
    [] b \in {"create_v", "create_w"} -> "create"
    [] b \in {"select_v", "select_w"} -> "select"
    [] b = "with_p" -> "with"
    [] b = "explain" -> "explain"
    [] b = "insert_t" -> "insert"
    [] b = "update_t" -> "update"
    [] b = "delete_t" -> "delete"
    [] b = "alter_t" -> "alter"
    [] b = "pragma" -> "pragma"
    [] b = "vacuum" -> "vacuum"
    [] OTHER -> "none"

\* Faulty variant: EXPLAIN is taken for a statement too.
StartersAndExplain ==
  {"select", "with", "create", "drop", "insert", "update", "delete", "alter", "pragma", "vacuum",
   "explain"}

\* Faulty variant: VACUUM is not listed.
StartersWithoutVacuum ==
  {"select", "with", "create", "drop", "insert", "update", "delete", "alter", "pragma"}

\* transform.py:93-94
Starters == {"select", "with", "create", "drop", "insert", "update", "delete", "alter", "pragma", "vacuum"}

\* ------------------------------------------------------------------ Split
\* Index of the last token of the whitespace run that starts at j (j-1 if none):
\* what the greedy \s* of the split pattern consumes first.
RECURSIVE WsRunEnd(_, _)
WsRunEnd(s, j) ==
  IF j <= Len(s) /\ IsWs(s[j]) THEN WsRunEnd(s, j + 1) ELSE j - 1

\* With \s* having consumed the tokens up to index e, the three alternatives
\* (?:--[^\n]*\r?\n|\r?\n|$) tried in order; the index of the last token matched,
\* or 0 when none matches.
AltEnd(s, e) ==
  IF e + 2 <= Len(s) /\ s[e + 1] = "CMT" /\ s[e + 2] = "NL" THEN e + 2
  ELSE IF e + 1 <= Len(s) /\ s[e + 1] = "NL" THEN e + 1
  ELSE IF e = Len(s) THEN e
  ELSE 0

\* Backtracking of \s*: from the longest whitespace run down to the empty one.
RECURSIVE MatchEnd(_, _, _)
MatchEnd(s, i, e) ==
  IF e < i THEN 0
  ELSE IF AltEnd(s, e) # 0 THEN AltEnd(s, e)
  ELSE MatchEnd(s, i, e - 1)

\* The split pattern ;\s*(?:--[^\n]*\r?\n|\r?\n|$) tried at token i: the index of
\* the last token of the match, 0 when the pattern does not match there.
SemiMatch(s, i) ==
  IF s[i] = "SEMI" THEN MatchEnd(s, i, WsRunEnd(s, i + 1)) ELSE 0

\* re.split: the pieces between the leftmost non-overlapping matches, the rest
\* of the text after the last match included (possibly empty).
RECURSIVE ReSplit(_, _, _)
ReSplit(s, pos, i) ==
  IF i > Len(s) THEN << SubSeq(s, pos, Len(s)) >>
  ELSE IF SemiMatch(s, i) # 0
       THEN << SubSeq(s, pos, i - 1) >> \o ReSplit(s, SemiMatch(s, i) + 1, SemiMatch(s, i) + 1)
       ELSE ReSplit(s, pos, i + 1)

\* str.strip() of a piece of text is non-empty.
HasNonWs(p) == \E k \in 1..Len(p) : ~IsWs(p[k])

NotComment(t) == t \notin CommentTokens

\* _strip_sql_comments: block comments, then line comments, removed.
StripSqlComments(p) == SelectSeq(p, NotComment)

RECURSIVE LStrip(_)
LStrip(p) == IF p # <<>> /\ IsWs(Head(p)) THEN LStrip(Tail(p)) ELSE p

RECURSIVE RStrip(_)
RStrip(p) ==
  IF p # <<>> /\ IsWs(p[Len(p)]) THEN RStrip(SubSeq(p, 1, Len(p) - 1)) ELSE p

Strip(p) == RStrip(LStrip(p))

\* _looks_like_sql: the text starts with one of the listed keywords.
LooksLikeSql(stmt) ==
  /\ stmt # <<>>
  /\ LStrip(stmt) # <<>>
  /\ IsBody(Head(LStrip(stmt)))
  /\ Keyword(Head(LStrip(stmt))) \in Starters

\* _normalize_stmt: comments and surrounding whitespace removed; the empty text
\* when nothing SQL-like remains.
NormalizeStmt(p) ==
  IF p = <<>> THEN <<>>
  ELSE IF LooksLikeSql(Strip(StripSqlComments(p))) THEN Strip(StripSqlComments(p))
  ELSE <<>>

RECURSIVE MapNormalize(_)
MapNormalize(parts) ==
  IF parts = <<>> THEN <<>>
  ELSE << NormalizeStmt(Head(parts)) >> \o MapNormalize(Tail(parts))

NonEmptySeq(p) == p # <<>>

\* _split_sql_statements
SplitSqlStatements(sql) ==
  SelectSeq(MapNormalize(SelectSeq(ReSplit(sql, 1, 1), HasNonWs)), NonEmptySeq)

\* _is_select_like
IsSelectLike(stmt) ==
  /\ LStrip(stmt) # <<>>
  /\ IsBody(Head(LStrip(stmt)))
  /\ Keyword(Head(LStrip(stmt))) \in {"select", "with"}

\* The view a body creates, "none" when it is no CREATE VIEW <name> AS.
CreatedBy(t) ==
  CASE t = "create_v" -> "v"
    [] t = "create_w" -> "w"
    [] OTHER -> "none"

\* _extract_created_view_name: _VIEW_RE.search, the first CREATE VIEW of the text.
RECURSIVE ExtractCreatedViewName(_)
ExtractCreatedViewName(stmt) ==
  IF stmt = <<>> THEN "none"
  ELSE IF CreatedBy(Head(stmt)) # "none" THEN CreatedBy(Head(stmt))
  ELSE ExtractCreatedViewName(Tail(stmt))

\* ------------------------------------------------------------------ the store
ViewNames == {"v", "w"}

NoParams == "none"

\* A DataFrame: its columns and its rows (one value per row).
Table(cols, rows) == [kind |-> "DataFrame", cols |-> cols, rows |-> rows]

\* pd.DataFrame(): no column, no row.
EmptyFrame == Table(<<>>, <<>>)

\* Python's None: what the call holds before it returns anything.
NoneValue == [kind |-> "None", cols |-> <<>>, rows |-> <<>>]

NoError == [stmt |-> <<>>, why |-> "none"]

StoreError(stmt, why) == [stmt |-> stmt, why |-> why]

\* What _read_sql raises when the script file does not exist.
FileNotFound == [stmt |-> <<>>, why |-> "FileNotFoundError"]

Reply(ok, st, table, err) == [ok |-> ok, store |-> st, table |-> table, err |-> err]

\* SQLite on one statement body, with the bound parameters prm.
ApplyBody(st, stmt, b, prm) ==
  CASE b = "dropif_v" -> Reply(TRUE, [st EXCEPT !["v"] = "absent"], EmptyFrame, NoError)
    [] b = "drop_v" ->
         IF st["v"] = "absent"
         THEN Reply(FALSE, st, EmptyFrame, StoreError(stmt, "no such view"))
         ELSE Reply(TRUE, [st EXCEPT !["v"] = "absent"], EmptyFrame, NoError)
    [] b = "create_v" ->
         IF st["v"] # "absent"
         THEN Reply(FALSE, st, EmptyFrame, StoreError(stmt, "already exists"))
         ELSE Reply(TRUE, [st EXCEPT !["v"] = "1"], EmptyFrame, NoError)
    [] b = "create_w" ->
         IF st["w"] # "absent"
         THEN Reply(FALSE, st, EmptyFrame, StoreError(stmt, "already exists"))
         ELSE Reply(TRUE, [st EXCEPT !["w"] = "2"], EmptyFrame, NoError)
    [] b = "select_v" ->
         IF st["v"] = "absent"
         THEN Reply(FALSE, st, EmptyFrame, StoreError(stmt, "no such table"))
         ELSE Reply(TRUE, st, Table(<<"x">>, << st["v"] >>), NoError)
    [] b = "select_w" ->
         IF st["w"] = "absent"
         THEN Reply(FALSE, st, EmptyFrame, StoreError(stmt, "no such table"))
         ELSE Reply(TRUE, st, Table(<<"x">>, << st["w"] >>), NoError)
    [] b = "with_p" ->
         IF prm = NoParams
         THEN Reply(FALSE, st, EmptyFrame, StoreError(stmt, "incorrect number of bindings"))
         ELSE Reply(TRUE, st, Table(<<"x">>, << prm >>), NoError)
    [] OTHER -> Reply(TRUE, st, EmptyFrame, NoError)

\* One execute() of the SQLite driver on the text stmt: a text holding more than
\* one statement is refused before anything runs.
StoreExecute(st, stmt, prm) ==
  IF Len(SelectSeq(stmt, IsBody)) # 1
  THEN Reply(FALSE, st, EmptyFrame, StoreError(stmt, "one statement at a time"))
  ELSE ApplyBody(st, stmt, Head(SelectSeq(stmt, IsBody)), prm)

\* One entry of the log of what was sent to the store.
Sent(stmt, r) == [stmt |-> stmt, ok |-> r.ok, err |-> r.err]

\* conn.exec_driver_sql(stmt): no parameters are passed.
ExecDriverSql(st, stmt) == StoreExecute(st, stmt, NoParams)

\* pd.read_sql_query(stmt, conn, params=params or {})
ReadSqlQuery(st, stmt, prm) == StoreExecute(st, stmt, prm)

\* f"SELECT * FROM {fallback_view}"
SelectAllFrom(name) == IF name = "v" THEN << "select_v" >> ELSE << "select_w" >>

\* ------------------------------------------------------------------ _run_df
\* sql.strip() is empty.
IsBlank(sql) == ~HasNonWs(sql)

\* The backward scan for the final SELECT/CTE (0 when there is none).
RECURSIVE ScanLastSelect(_, _)
ScanLastSelect(ss, i) ==
  IF i < 1 THEN 0
  ELSE IF IsSelectLike(ss[i]) THEN i
  ELSE ScanLastSelect(ss, i - 1)

\* A forward scan, as a faulty variant would do: it stops at the first SELECT/CTE.
RECURSIVE ScanFirstSelect(_, _)
ScanFirstSelect(ss, i) ==
  IF i > Len(ss) THEN 0
  ELSE IF IsSelectLike(ss[i]) THEN i
  ELSE ScanFirstSelect(ss, i + 1)

FirstSelectIdx(ss) == ScanFirstSelect(ss, 1)

LastSelectIdx(ss) == ScanLastSelect(ss, Len(ss))

\* The backward scan for the most recent CREATE VIEW ("none" when there is none).
RECURSIVE ScanLastView(_, _)
ScanLastView(ss, j) ==
  IF j < 1 THEN "none"
  ELSE IF ExtractCreatedViewName(ss[j]) # "none" THEN ExtractCreatedViewName(ss[j])
  ELSE ScanLastView(ss, j - 1)

\* Faulty variants: the first CREATE VIEW of the script instead of the most
\* recent one, and no fallback at all.
RECURSIVE ScanFirstView(_, _)
ScanFirstView(ss, j) ==
  IF j > Len(ss) THEN "none"
  ELSE IF ExtractCreatedViewName(ss[j]) # "none" THEN ExtractCreatedViewName(ss[j])
  ELSE ScanFirstView(ss, j + 1)

FirstCreatedView(ss, lsi) == IF lsi = 0 THEN ScanFirstView(ss, 1) ELSE "none"

NoFallbackView(ss, lsi) == "none"

FallbackView(ss, lsi) == IF lsi = 0 THEN ScanLastView(ss, Len(ss)) ELSE "none"

\* Faulty variant: the loop leaves out the fetch target and all that follows it.
StopAtTarget(i, lsi) == lsi # 0 /\ i >= lsi

\* The setup loop skips exactly the fetch target (idx == last_select_idx).
SkippedInSetup(i, lsi) == i = lsi

\* Faulty variant: the error is swallowed and the loop goes on.
SwallowStoreError(err) == [pc |-> "setup", raised |-> NoError]

\* No handler: a store error leaves the loop and the function at once.
OnStoreError(err) == [pc |-> "close", raised |-> err]

\* Faulty variant: the connection is released on return only.
ReleaseUnlessRaised(open, err) == IF err # NoError THEN open ELSE open - 1

\* Leaving the `with database.connect()` block releases the connection,
\* whether by return or by exception.
ReleaseOnExit(open, err) == open - 1

\* The query runner's call.
VARIABLES
  sql_file,         \* whether queries/<name>.sql exists: "present" or "missing"
  script,           \* the text of queries/<name>.sql, as tokens
  params,           \* the params argument
  store,            \* the views of the database
  store0,           \* the database when the call starts
  pc,               \* where the call is
  stmts,            \* the statements Split retained
  last_select_idx,  \* 1-based; 0 is None
  fallback_view,    \* "none" is None
  idx,              \* the setup loop's position
  conn_open,        \* connections now open
  conn_opened,      \* connections this call has opened
  sent,             \* the texts sent to the store and its replies, in order
  result,           \* what the call returned
  raised            \* what the call raised

qvars == << sql_file, script, params, store, store0, pc, stmts, last_select_idx, fallback_view,
            idx, conn_open, conn_opened, sent, result, raised >>

\* The loader's call and its database.
VARIABLES
  arg1,       \* shape of load's first argument (data_frames)
  arg2,       \* shape of load's second argument (database)
  l_tables,   \* the keys of the table mapping, in iteration order
  l_pc,       \* where load is
  l_k,        \* position in the table loop
  l_i,        \* position in the list of view statements
  db_tables,  \* committed tables: "absent", "old" (before this load) or "new"
  db_views,   \* committed views
  txn_views,  \* views created in the open transaction, not yet committed
  db0_tables, \* the tables when load starts
  db0_views,  \* the views when load starts
  l_raised,   \* what load raised: "none", "TypeError", "table", "view", "exists"
  l_frames,   \* the DataFrames of the table mapping: key -> rows
  db_rows,    \* the rows of every committed table (none when the table is absent)
  db0_rows,   \* the rows when load starts
  l_history   \* the table mappings passed to load on this store, the present one last

lvars == << arg1, arg2, l_tables, l_pc, l_k, l_i, db_tables, db_views, txn_views,
            db0_tables, db0_views, l_raised, l_frames, db_rows, db0_rows, l_history >>

\* The extractor's call and what it finds outside.
VARIABLES
  table_to_csv,         \* the tables of the mapping table -> file, in iteration order
  csv_present,          \* the tables whose file exists in csv_folder
  public_holidays_url,  \* "None", "" or "url"
  feed,                 \* what a request to the holidays feed meets
  e_pc,                 \* where extract is
  e_k,                  \* position in the loop over the mapping
  e_result,             \* the dict result, as built so far
  e_returned,           \* what extract returned (NoneValue before it returns)
  e_raised,             \* what extract raised
  e_exists,             \* the tables whose file was looked for, in order
  e_reads,              \* the tables whose file was read, in order
  e_requests            \* requests sent to the feed

evars == << table_to_csv, csv_present, public_holidays_url, feed, e_pc, e_k, e_result,
            e_returned, e_raised, e_exists, e_reads, e_requests >>

\* The cleaner's calls (clean, save_cleaned, load_cleaned) and the output directory.
VARIABLES
  c_T,          \* the table mapping given to the first clean, by value
  c_names,      \* the keys of the mapping given to clean, in iteration order
  c_heap,       \* the DataFrame objects allocated so far
  c_input,      \* the mapping given to clean: key -> object
  c_cleaned,    \* the dict cleaned: key -> object
  c_first,      \* the frames the first clean returned, by value
  c_pass,       \* 1 in the first clean, 2 in a clean of its result
  c_pc,         \* where the cleaner is
  c_k,          \* position in the loop under way
  disk_csv,     \* out_dir: the file <name>.csv of every name
  disk_schema,  \* out_dir: _schema.json
  p_schema,     \* save_cleaned's dict schema, as built so far
  p_loaded,     \* load_cleaned's dict loaded
  p_raised,     \* what load_cleaned raised ("none": nothing)
  p_exists,     \* the paths load_cleaned looked for, in order
  p_reads,      \* the tables whose file load_cleaned read, in order
  p_saves       \* the calls of save_cleaned that have returned

cvars == << c_T, c_names, c_heap, c_input, c_cleaned, c_first, c_pass, c_pc, c_k,
            disk_csv, disk_schema, p_schema, p_loaded, p_raised, p_exists, p_reads,
            p_saves >>

\* What a step of one component leaves alone: the other components.
not_q == << lvars, evars, cvars >>

not_l == << qvars, evars, cvars >>

not_e == << qvars, lvars, cvars >>

not_c == << qvars, lvars, evars >>

\* One statement as written in a file: its body, the semicolon, and what follows
\* the semicolon: a newline, or blanks with the next statement on the same line.
Layouts == {"NL", "SP"}

Written(b, lay) == << b, "SEMI", lay >>

RECURSIVE ScriptsOf(_)
ScriptsOf(n) ==
  IF n = 0 THEN { <<>> }
  ELSE { Written(b, lay) \o rest : b \in ScriptBodies, lay \in Layouts, rest \in ScriptsOf(n - 1) }

\* Files without any statement: empty, blank, comments only.
StatementFree == { <<>>, << "SP", "NL" >>, << "CMT", "NL" >>, << "BLK", "NL", "CMT" >> }

\* Files with comments: a header comment and a comment after a semicolon; a block
\* comment and a last line `stmt; -- comment` without newline; a comment line
\* between two statements.
Commented ==
  { << "CMT", "NL", "create_v", "SEMI", "SP", "CMT", "NL", "select_v", "SEMI", "NL" >>,
    << "BLK", "NL", "select_v", "SEMI", "SP", "CMT" >>,
    << "dropif_v", "SEMI", "NL", "CMT", "NL", "create_w", "SEMI", "SP", "SP", "NL", "NL",
       "explain", "SEMI", "NL" >> }

\* Files of the other listed keywords, each statement before a SELECT; files
\* whose only fragment is dropped: EXPLAIN after a comment, a semicolon with no
\* line end after it before the text; a VACUUM between comments.
KeywordScripts ==
  { << b, "SEMI", "NL", "select_v", "SEMI", "NL" >> : b \in OtherBodies }
  \cup { << "CMT", "NL", "BLK", "explain", "SEMI", "NL" >>,
         << "SEMI", "SP", "select_v", "SEMI", "NL" >>,
         << "BLK", "SP", "vacuum", "SP", "CMT" >> }

Scripts ==
  StatementFree \cup Commented \cup KeywordScripts \cup UNION { ScriptsOf(n) : n \in 1..MaxStmts }

QInit ==
  /\ \/ sql_file = "present" /\ script \in Scripts
     \/ sql_file = "missing" /\ script = <<>>
  /\ params \in {NoParams, "7"}
  /\ store \in { [v |-> c, w |-> "absent"] : c \in {"absent", "9"} }
  /\ store0 = store
  /\ pc = "read"
  /\ stmts = <<>>
  /\ last_select_idx = 0
  /\ fallback_view = "none"
  /\ idx = 0
  /\ conn_open = 0
  /\ conn_opened = 0
  /\ sent = <<>>
  /\ result = NoneValue
  /\ raised = NoError

\* _run_df line 120, _read_sql line 55: read_text raises for a file that is not there.
ReadMissing ==
  /\ pc = "read"
  /\ sql_file = "missing"
  /\ raised' = FileNotFound
  /\ pc' = "done"
  /\ UNCHANGED << script, params, store, store0, stmts, last_select_idx, fallback_view,
                  idx, conn_open, conn_opened, sent, result >>
  /\ UNCHANGED sql_file
  /\ UNCHANGED not_q

\* _run_df, lines 120-124: read the text; a blank text returns an empty frame.
ReadBlank ==
  /\ pc = "read"
  /\ sql_file = "present"
  /\ IsBlank(script)
  /\ result' = EmptyFrame
  /\ pc' = "done"
  /\ UNCHANGED << script, params, store, store0, stmts, last_select_idx, fallback_view,
                  idx, conn_open, conn_opened, sent, raised >>
  /\ UNCHANGED sql_file
  /\ UNCHANGED not_q

\* lines 122-126: a non-blank text is split.
ReadSplit ==
  /\ pc = "read"
  /\ sql_file = "present"
  /\ ~IsBlank(script)
  /\ stmts' = SplitSqlStatements(script)
  /\ pc' = "connect"
  /\ UNCHANGED << script, params, store, store0, last_select_idx, fallback_view,
                  idx, conn_open, conn_opened, sent, result, raised >>
  /\ UNCHANGED sql_file
  /\ UNCHANGED not_q

\* lines 128-131: the connection is opened; nothing to run returns an empty frame.
ConnectEmpty ==
  /\ pc = "connect"
  /\ stmts = <<>>
  /\ conn_open' = conn_open + 1
  /\ conn_opened' = conn_opened + 1
  /\ result' = EmptyFrame
  /\ pc' = "close"
  /\ UNCHANGED << script, params, store, store0, stmts, last_select_idx, fallback_view,
                  idx, sent, raised >>
  /\ UNCHANGED sql_file
  /\ UNCHANGED not_q

\* lines 128-149: the connection is opened and the fetch target located.
ConnectLocate ==
  /\ pc = "connect"
  /\ stmts # <<>>
  /\ conn_open' = conn_open + 1
  /\ conn_opened' = conn_opened + 1
  /\ last_select_idx' = LastSelectIdx(stmts)
  /\ fallback_view' = FallbackView(stmts, LastSelectIdx(stmts))
  /\ idx' = 1
  /\ pc' = "setup"
  /\ UNCHANGED << script, params, store, store0, stmts, sent, result, raised >>
  /\ UNCHANGED sql_file
  /\ UNCHANGED not_q

\* lines 159-161: the loop passes over the fetch target.
SetupSkip ==
  /\ pc = "setup"
  /\ idx <= Len(stmts)
  /\ SkippedInSetup(idx, last_select_idx)
  /\ idx' = idx + 1
  /\ UNCHANGED << script, params, store, store0, pc, stmts, last_select_idx, fallback_view,
                  conn_open, conn_opened, sent, result, raised >>
  /\ UNCHANGED sql_file
  /\ UNCHANGED not_q

\* lines 162-168: every other statement is executed, its rows discarded.
SetupExec ==
  /\ pc = "setup"
  /\ idx <= Len(stmts)
  /\ ~SkippedInSetup(idx, last_select_idx)
  /\ LET r == ExecDriverSql(store, stmts[idx]) IN
       /\ sent' = Append(sent, Sent(stmts[idx], r))
       /\ store' = r.store
       /\ IF r.ok
          THEN /\ idx' = idx + 1
               /\ UNCHANGED << pc, raised >>
          ELSE /\ pc' = OnStoreError(r.err).pc
               /\ raised' = OnStoreError(r.err).raised
               /\ idx' = IF OnStoreError(r.err).pc = "setup" THEN idx + 1 ELSE idx
  /\ UNCHANGED << script, params, store0, stmts, last_select_idx, fallback_view,
                  conn_open, conn_opened, result >>
  /\ UNCHANGED sql_file
  /\ UNCHANGED not_q

\* lines 159, 170: the loop is over.
SetupDone ==
  /\ pc = "setup"
  /\ idx > Len(stmts)
  /\ pc' = "fetch"
  /\ UNCHANGED << script, params, store, store0, stmts, last_select_idx, fallback_view,
                  idx, conn_open, conn_opened, sent, result, raised >>
  /\ UNCHANGED sql_file
  /\ UNCHANGED not_q

\* What the fetch sends: the target (lines 171-172) or the fallback select (176-177).
FetchText == IF last_select_idx # 0 THEN stmts[last_select_idx] ELSE SelectAllFrom(fallback_view)

\* lines 171-179: the fetch target, or else the fallback view, is read into a frame.
Fetch ==
  /\ pc = "fetch"
  /\ last_select_idx # 0 \/ fallback_view # "none"
  /\ LET r == ReadSqlQuery(store, FetchText, params) IN
       /\ sent' = Append(sent, Sent(FetchText, r))
       /\ store' = r.store
       /\ IF r.ok
          THEN /\ result' = r.table
               /\ UNCHANGED raised
          ELSE /\ raised' = r.err
               /\ UNCHANGED result
  /\ pc' = "close"
  /\ UNCHANGED << script, params, store0, stmts, last_select_idx, fallback_view,
                  idx, conn_open, conn_opened >>
  /\ UNCHANGED sql_file
  /\ UNCHANGED not_q

\* lines 181-182: nothing fetchable.
FetchNothing ==
  /\ pc = "fetch"
  /\ last_select_idx = 0
  /\ fallback_view = "none"
  /\ result' = EmptyFrame
  /\ pc' = "close"
  /\ UNCHANGED << script, params, store, store0, stmts, last_select_idx, fallback_view,
                  idx, conn_open, conn_opened, sent, raised >>
  /\ UNCHANGED sql_file
  /\ UNCHANGED not_q

\* line 128: the with block is left, by return or by exception.
Close ==
  /\ pc = "close"
  /\ conn_open' = ReleaseOnExit(conn_open, raised)
  /\ pc' = "done"
  /\ UNCHANGED << script, params, store, store0, stmts, last_select_idx, fallback_view,
                  idx, conn_opened, sent, result, raised >>
  /\ UNCHANGED sql_file
  /\ UNCHANGED not_q

QNext ==
  \/ ReadMissing
  \/ ReadBlank
  \/ ReadSplit
  \/ ConnectEmpty
  \/ ConnectLocate
  \/ SetupSkip
  \/ SetupExec
  \/ SetupDone
  \/ Fetch
  \/ FetchNothing
  \/ Close



\* ------------------------------------------------------------------ properties of runQuery
Returned == pc = "done" /\ raised = NoError

Located == pc \in {"setup", "fetch", "close", "done"} /\ stmts # <<>>

SelectLikeAt == { i \in 1..Len(stmts) : IsSelectLike(stmts[i]) }

CreateViewAt == { i \in 1..Len(stmts) : \E k \in 1..Len(stmts[i]) : CreatedBy(stmts[i][k]) # "none" }

MaxOf(S) == CHOOSE i \in S : \A j \in S : j <= i

MinOf(S) == CHOOSE i \in S : \A j \in S : i <= j

\* The name in the first CREATE VIEW of a statement text.
NameIn(stmt) ==
  CreatedBy(stmt[MinOf({ k \in 1..Len(stmt) : CreatedBy(stmt[k]) # "none" })])

\* The rows a single SELECT-like statement yields on the views st with parameters prm.
RowsOf(stmt, st, prm) ==
  CASE Head(stmt) = "select_v" -> << st["v"] >>
    [] Head(stmt) = "select_w" -> << st["w"] >>
    [] OTHER -> << prm >>

SentTexts == [ k \in 1..Len(sent) |-> sent[k].stmt ]

IsPrefix(a, b) == Len(a) <= Len(b) /\ a = SubSeq(b, 1, Len(a))

Without(ss, k) == SubSeq(ss, 1, k - 1) \o SubSeq(ss, k + 1, Len(ss))

\* What one call is to send, in order: every statement but the fetch target,
\* then the fetch target (or the select-all of the fallback view).
ExpectedSent ==
  IF SelectLikeAt # {}
  THEN Append(Without(stmts, MaxOf(SelectLikeAt)), stmts[MaxOf(SelectLikeAt)])
  ELSE IF CreateViewAt # {}
       THEN Append(stmts, SelectAllFrom(NameIn(stmts[MaxOf(CreateViewAt)])))
       ELSE stmts

\* The views after the statements ss have run one after the other from st.
RECURSIVE RunInOrder(_, _)
RunInOrder(st, ss) ==
  IF ss = <<>> THEN st ELSE RunInOrder(ExecDriverSql(st, Head(ss)).store, Tail(ss))

\* C1: no side-effecting statement clobbers the fetch target: every view that
\* exists at the fetch target's position in script order (after the statements
\* written before it have run) still exists when the fetch target is executed.
C1_NoClobber ==
  (pc = "fetch" /\ last_select_idx # 0) =>
    \A n \in ViewNames :
      RunInOrder(store0, SubSeq(stmts, 1, last_select_idx - 1))[n] # "absent"
        => store[n] # "absent"

\* C2: when some retained statement is select-like, the fetch target is the last
\* such statement in script order, and the table returned holds the rows of that
\* statement under the supplied params (never those of an earlier select).
C2_FetchLastSelect ==
  (Located /\ SelectLikeAt # {}) =>
    /\ last_select_idx = MaxOf(SelectLikeAt)
    /\ Returned =>
         result = Table(<<"x">>, RowsOf(stmts[MaxOf(SelectLikeAt)], store, params))

C2_Witness ==
  /\ Returned
  /\ Cardinality(SelectLikeAt) >= 2
  /\ stmts[MinOf(SelectLikeAt)] = << "select_v" >>
  /\ stmts[MaxOf(SelectLikeAt)] = << "with_p" >>
  /\ result = Table(<<"x">>, << "7" >>)

\* C3: the texts sent to the store are always a prefix of: every retained
\* statement but the fetch target, in script order, then the fetch target; a
\* call that returns has sent all of them, each once, the fetch target last.
C3_SetupThenFetch ==
  Located =>
    /\ IsPrefix(SentTexts, ExpectedSent)
    /\ Returned => SentTexts = ExpectedSent

C3_Witness ==
  /\ Returned
  /\ last_select_idx # 0
  /\ last_select_idx < Len(stmts)
  /\ Len(sent) = Len(stmts)
  /\ sent[Len(sent)].stmt = stmts[last_select_idx]

\* C4: without a select-like statement but with a create-view statement, all
\* statements run as setup and the call returns the select-all of the view named
\* by the last create-view statement; CREATE VIEW v AS SELECT 1 AS x alone gives
\* one row, one column, value 1.
C4_FallbackView ==
  /\ (Located /\ Returned /\ SelectLikeAt = {} /\ CreateViewAt # {}) =>
       /\ SentTexts = Append(stmts, SelectAllFrom(NameIn(stmts[MaxOf(CreateViewAt)])))
       /\ result = Table(<<"x">>, << store[NameIn(stmts[MaxOf(CreateViewAt)])] >>)
  /\ (pc = "done" /\ script = << "create_v", "SEMI", "NL" >> /\ store0["v"] = "absent") =>
       /\ raised = NoError
       /\ result = Table(<<"x">>, << "1" >>)

C4_Witness ==
  /\ Returned
  /\ SelectLikeAt = {}
  /\ Cardinality(CreateViewAt) = 2
  /\ stmts[MinOf(CreateViewAt)] = << "create_v" >>
  /\ stmts[MaxOf(CreateViewAt)] = << "create_w" >>
  /\ result = Table(<<"x">>, << "2" >>)

\* The statement bodies written in a script, in order.
BodiesOf(sql) == SelectSeq(sql, IsBody)

\* A script of `;`-terminated statements that all start with a listed keyword.
ListedStatements(sql) ==
  /\ sql \in UNION { ScriptsOf(n) : n \in 1..MaxStmts }
  /\ \A k \in 1..Len(BodiesOf(sql)) : Keyword(BodiesOf(sql)[k]) \in Starters

ExampleScript ==
  << "dropif_v", "SEMI", "SP", "create_v", "SEMI", "SP", "select_v", "SEMI", "NL" >>

\* C5: for a script of n `;`-terminated statements Split yields exactly those n
\* statements in script order, whether a newline or only blanks separate them;
\* the one-line script DROP VIEW IF EXISTS v; CREATE VIEW v AS SELECT 1 AS x;
\* SELECT * FROM v; returns one row, one column, value 1.
C5_SplitEveryStatement ==
  /\ (pc \notin {"read", "idle"} /\ ListedStatements(script)) =>
       /\ Len(stmts) = Len(BodiesOf(script))
       /\ \A k \in 1..Len(stmts) : stmts[k] = << BodiesOf(script)[k] >>
  /\ (pc = "done" /\ script = ExampleScript) =>
       /\ raised = NoError
       /\ result = Table(<<"x">>, << "1" >>)

\* C6: a call that returns gives a DataFrame, never None: the fetch target's
\* result, the select-all of the fallback view, or the empty frame; the empty
\* frame only for a blank text (nothing sent, no connection opened), for a text
\* with no retained statement, or with neither select-like nor create-view
\* statement.
C6_AlwaysTabular ==
  Returned =>
    /\ result.kind = "DataFrame"
    /\ IsBlank(script) => (result = EmptyFrame /\ sent = <<>> /\ conn_opened = 0)
    /\ (~IsBlank(script) /\ stmts = <<>>) => result = EmptyFrame
    /\ (stmts # <<>> /\ SelectLikeAt # {}) =>
         result = Table(<<"x">>, RowsOf(stmts[MaxOf(SelectLikeAt)], store, params))
    /\ (stmts # <<>> /\ SelectLikeAt = {} /\ CreateViewAt # {}) =>
         result = Table(<<"x">>, << store[NameIn(stmts[MaxOf(CreateViewAt)])] >>)
    /\ (stmts # <<>> /\ SelectLikeAt = {} /\ CreateViewAt = {}) => result = EmptyFrame
    /\ result = EmptyFrame =>
         \/ IsBlank(script)
         \/ stmts = <<>>
         \/ (SelectLikeAt = {} /\ CreateViewAt = {})

C6_Witness ==
  /\ Returned
  /\ result = EmptyFrame
  /\ ~IsBlank(script)
  /\ stmts # <<>>
  /\ sent # <<>>
  /\ conn_opened = 1

\* C7: when the store rejects a statement, setup or fetch, the call raises that
\* very error: the rejected statement is the last one sent (sent once, nothing
\* after it) and no table is returned.
C7_StoreErrorPropagates ==
  \A k \in 1..Len(sent) :
    ~sent[k].ok =>
      /\ k = Len(sent)
      /\ raised = sent[k].err
      /\ raised # NoError
      /\ raised.stmt = sent[k].stmt
      /\ pc \in {"close", "done"}
      /\ result = NoneValue
      /\ IsPrefix(SentTexts, ExpectedSent)

C7_Witness ==
  /\ pc = "done"
  /\ raised # NoError
  /\ Len(sent) >= 2
  /\ Len(sent) < Len(ExpectedSent) - 1
  /\ ~sent[Len(sent)].ok

\* C8: a call opens at most one connection, and whatever the exit path (result,
\* early empty return, store error in setup or in the fetch) the connection is
\* released when the call ends.
C8_ConnectionReleased ==
  /\ conn_opened <= 1
  /\ conn_open <= conn_opened
  /\ pc = "done" => conn_open = 0
  /\ conn_open # 0 => pc \in {"setup", "fetch", "close"}

C8_Witness ==
  /\ pc = "done"
  /\ raised # NoError
  /\ conn_opened = 1
  /\ conn_open = 0

\* The k-th smallest member of a set of positions.
KthOf(S, k) == CHOOSE i \in S : Cardinality({ j \in S : j <= i }) = k

\* The fragments of a script: what re.split gives.
Fragments(sql) == ReSplit(sql, 1, 1)

\* The first token of a fragment that is neither whitespace nor a comment
\* ("none" when there is no such token): where the fragment starts once
\* comments are stripped and whitespace is trimmed.
RECURSIVE FirstWord(_)
FirstWord(f) ==
  IF f = <<>> THEN "none"
  ELSE IF Head(f) \in WsTokens \cup CommentTokens THEN FirstWord(Tail(f))
  ELSE Head(f)

\* The fragment starts with one of the ten keywords.
StartsWithListed(f) ==
  /\ FirstWord(f) \in Bodies
  /\ Keyword(FirstWord(f)) \in
       { "select", "with", "create", "drop", "insert", "update", "delete", "alter",
         "pragma", "vacuum" }

\* The positions, in a sequence of fragments, of those that start with a
\* listed keyword.
RetainedAt(frags) == { i \in 1..Len(frags) : StartsWithListed(frags[i]) }

\* The texts the call may send to the store: the statements retained and the
\* SELECT on a fallback view.
Sendable == { stmts[k] : k \in 1..Len(stmts) } \cup { SelectAllFrom(v) : v \in ViewNames }

\* C20: when the script has been split, the statements are the fragments that
\* start with one of the ten keywords after comments are stripped and
\* whitespace is trimmed, in the script's order and without their comments;
\* every other fragment is dropped: at no time has a text been sent to the
\* store, or an error named a text, that is not a retained statement (or the
\* SELECT on the fallback view), and a call that retained nothing ends with an
\* empty frame, no error and nothing sent.
C20_SplitRetention ==
  (pc \notin {"idle", "read"} /\ sql_file = "present" /\ ~IsBlank(script)) =>
    /\ \A k \in 1..Len(sent) : sent[k].stmt \in Sendable
    /\ raised # NoError => raised.stmt \in Sendable
    /\ (pc = "done" /\ stmts = <<>>) =>
         /\ raised = NoError
         /\ result = EmptyFrame
         /\ sent = <<>>
    /\ pc = "connect" =>
         LET frags == Fragments(script)
             kept == RetainedAt(frags)
         IN /\ Len(stmts) = Cardinality(kept)
            /\ \A k \in 1..Len(stmts) :
                 /\ StartsWithListed(stmts[k])
                 /\ stmts[k] = Strip(SelectSeq(frags[KthOf(kept, k)], NotComment))

\* The call on a script of three fragments has returned: DROP and CREATE were
\* retained and sent, the fragment starting with EXPLAIN was not.
C20_Witness ==
  /\ pc = "done"
  /\ script = << "dropif_v", "SEMI", "NL", "CMT", "NL", "create_w", "SEMI", "SP", "SP", "NL", "NL",
                 "explain", "SEMI", "NL" >>
  /\ Len(Fragments(script)) = 4
  /\ stmts = << << "dropif_v" >>, << "create_w" >> >>
  /\ raised = NoError
  /\ \A k \in 1..Len(sent) : sent[k].stmt # << "explain" >>
  /\ Len(sent) >= 2

\* ------------------------------------------------------------------ the Schema Registry
\* config.py TABLES: canonical name -> physical table, in the order written.
CanonOrder ==
  << "orders", "order_items", "products", "customers", "payments", "sellers",
     "reviews", "geolocation", "category_tr", "public_holidays" >>

TABLES ==
  [ orders |-> "olist_orders",
    order_items |-> "olist_order_items",
    products |-> "olist_products",
    customers |-> "olist_customers",
    payments |-> "olist_order_payments",
    sellers |-> "olist_sellers",
    reviews |-> "olist_order_reviews",
    geolocation |-> "olist_geolocation",
    category_tr |-> "product_category_name_translation",
    public_holidays |-> "public_holidays" ]

PhysicalOrder == [ k \in 1..Len(CanonOrder) |-> TABLES[CanonOrder[k]] ]

Physical == { PhysicalOrder[k] : k \in 1..Len(PhysicalOrder) }

\* One CREATE VIEW IF NOT EXISTS statement: the view and what its SELECT reads.
ViewStmt(name, reads) == [name |-> name, reads |-> reads]

\* create_compat_views, step 1: a canonical view per registry entry, the two
\* auxiliary names left out.
RECURSIVE CanonViewStmts(_)
CanonViewStmts(k) ==
  IF k > Len(CanonOrder) THEN <<>>
  ELSE IF CanonOrder[k] \in {"category_tr", "public_holidays"} THEN CanonViewStmts(k + 1)
  ELSE << ViewStmt(CanonOrder[k], {TABLES[CanonOrder[k]]}) >> \o CanonViewStmts(k + 1)

\* Faulty variant of steps 2-7: per_order_revenue is appended before the view
\* it reads.
BusinessViewStmtsMisordered ==
  << ViewStmt("product_category_en", {TABLES["products"], TABLES["category_tr"]}),
     ViewStmt("per_order_revenue", {"order_item_revenue"}),
     ViewStmt("order_item_revenue", {TABLES["order_items"]}),
     ViewStmt("delivered_orders", {TABLES["orders"]}),
     ViewStmt("per_order_with_delivery", {"delivered_orders", "per_order_revenue"}),
     ViewStmt("delivered_monthly_revenue", {"per_order_with_delivery"}) >>

\* create_compat_views, steps 2-7: the business views, in the order appended.
BusinessViewStmts ==
  << ViewStmt("product_category_en", {TABLES["products"], TABLES["category_tr"]}),
     ViewStmt("order_item_revenue", {TABLES["order_items"]}),
     ViewStmt("delivered_orders", {TABLES["orders"]}),
     ViewStmt("per_order_revenue", {"order_item_revenue"}),
     ViewStmt("per_order_with_delivery", {"delivered_orders", "per_order_revenue"}),
     ViewStmt("delivered_monthly_revenue", {"per_order_with_delivery"}) >>

\* The list stmts of create_compat_views.
CompatViewStmts == CanonViewStmts(1) \o BusinessViewStmts

CompatViews == { CompatViewStmts[k].name : k \in 1..Len(CompatViewStmts) }

\* Faulty variant: the delivery timestamp is not looked at.
DeliveredStatusOnly(r) == r.order_status = "delivered"

\* config.py:50-52, DELIVERED_WHERE, on one row of the orders table. In SQL a
\* NULL status makes the comparison NULL and the row is left out; the
\* comparison of texts tells capitals from small letters.
DELIVERED_WHERE(r) ==
  r.order_status = "delivered" /\ r.order_delivered_customer_date # "null"

\* load.py:89-97: SELECT * FROM delivered_orders, the view being
\* SELECT * FROM olist_orders WHERE {DELIVERED_WHERE}.
SelectFromDeliveredOrders(rows) == SelectSeq(rows[TABLES["orders"]], DELIVERED_WHERE)

\* ------------------------------------------------------------------ load
\* The runtime shape of an argument of load.
ArgKinds == {"Engine", "dict", "other"}

\* The keys of a table mapping in iteration order: those of PhysicalOrder in keys.
RECURSIVE KeysInOrder(_, _)
KeysInOrder(keys, k) ==
  IF k > Len(PhysicalOrder) THEN <<>>
  ELSE IF PhysicalOrder[k] \in keys THEN << PhysicalOrder[k] >> \o KeysInOrder(keys, k + 1)
  ELSE KeysInOrder(keys, k + 1)

\* A row of a table. Of its cells the model keeps the two that the
\* delivered-order rule reads (meaningful in olist_orders only), one cell of
\* some other object column ("text", "null", or "nested" for a list or dict)
\* and the data set the row came from.
Row(batch, status, delivered, other) ==
  [ batch |-> batch, order_status |-> status,
    order_delivered_customer_date |-> delivered, other |-> other ]

\* The data sets a caller loads: "a" and "b"; "0" is what the store held before.
Batches == {"a", "b"}

\* The orders of a data set. Set "a" has every combination the delivered-order
\* rule tells apart: status delivered, another status or NULL, with a delivery
\* timestamp or NULL.
OrdersSample(b) ==
  CASE b = "a" ->
         << Row("a", "delivered", "2017-01-05 10:00:00", "text"),
            Row("a", "delivered", "null", "text"),
            Row("a", "shipped", "2017-02-01 00:00:00", "text"),
            Row("a", "shipped", "null", "null"),
            Row("a", "null", "2017-02-01 00:00:00", "text"),
            Row("a", "Delivered", "2017-03-01 00:00:00", "text") >>
    [] b = "b" ->
         << Row("b", "canceled", "null", "nested"),
            Row("b", "delivered", "2018-01-01 00:00:00", "text") >>
    [] OTHER ->
         << Row("0", "delivered", "null", "text"),
            Row("0", "delivered", "2016-12-31 23:59:59", "text") >>

\* The DataFrame of table t in data set b. In set "b" the holiday table has no
\* row and the other tables hold a nested cell.
FrameOf(t, b) ==
  IF t = TABLES["orders"] THEN OrdersSample(b)
  ELSE IF t = TABLES["public_holidays"] /\ b = "b" THEN <<>>
  ELSE << Row(b, "n/a", "n/a", IF b = "b" THEN "nested" ELSE "text") >>

\* The table mapping with the given keys, of data set b.
MappingOf(keys, b) == [ t \in keys |-> FrameOf(t, b) ]

\* _sanitize_for_sqlite, line 38: a list or dict cell of an object column
\* becomes None.
SanitizeRow(r) == IF r.other = "nested" THEN [r EXCEPT !.other = "null"] ELSE r

\* _sanitize_for_sqlite: an empty frame is returned as it is.
SanitizeForSqlite(df) ==
  IF df = <<>> THEN df ELSE [ k \in 1..Len(df) |-> SanitizeRow(df[k]) ]

\* Faulty variant: to_sql(if_exists="append") adds the rows to those present.
ToSqlAppend(present, df) == present \o df

\* DataFrame.to_sql(name, if_exists="replace"), line 179: the table is dropped
\* and created again with the rows of the frame.
ToSqlReplace(present, df) == df

\* Faulty variant: CREATE VIEW without IF NOT EXISTS fails on a name in use.
CreateViewPlain(existing, name) ==
  [ ok |-> name \notin existing, created |-> {name} \ existing ]

\* CREATE VIEW IF NOT EXISTS, lines 59-129: a name in use is left as it is.
CreateViewIfNotExists(existing, name) ==
  [ ok |-> TRUE, created |-> {name} \ existing ]

\* A store that holds nothing, one whose tables were loaded without views, and
\* one left by an earlier complete load.
NoTables == [ t \in Physical |-> "absent" ]

OldTables == [ t \in Physical |-> "old" ]

\* The rows of a store before the first load: a table that is there holds data
\* set "0".
RowsBefore(tags) == [ t \in Physical |-> IF tags[t] = "absent" THEN <<>> ELSE FrameOf(t, "0") ]

LInit ==
  /\ arg1 \in ArgKinds
  /\ arg2 \in ArgKinds
  /\ l_tables \in { KeysInOrder(keys, 1) : keys \in SUBSET Physical }
  /\ l_pc = "start"
  /\ l_k = 0
  /\ l_i = 0
  /\ \/ db_tables = NoTables /\ db_views = {}
     \/ db_tables = OldTables /\ db_views = {}
     \/ db_tables = OldTables /\ db_views = CompatViews
  /\ txn_views = {}
  /\ db0_tables = db_tables
  /\ db0_views = db_views
  /\ l_raised = "none"
  /\ l_frames = MappingOf({ l_tables[k] : k \in 1..Len(l_tables) }, "a")
  /\ db_rows = RowsBefore(db_tables)
  /\ db0_rows = db_rows
  /\ l_history = << l_frames >>

\* Faulty variant: only the original order load(tables, engine) is accepted.
IsTablesThenEngine(a1, a2) == a2 = "Engine" /\ a1 = "dict"

\* load, lines 161 and 165: one argument is an Engine and the other a dict,
\* in either order.
IsEngineAndDict(a1, a2) ==
  \/ a1 = "Engine" /\ a2 = "dict"
  \/ a2 = "Engine" /\ a1 = "dict"

\* load, lines 161-168: the two arguments are told apart by their shape.
LoadResolve ==
  /\ l_pc = "start"
  /\ IsEngineAndDict(arg1, arg2)
  /\ l_pc' = "tables"
  /\ l_k' = 1
  /\ UNCHANGED << arg1, arg2, l_tables, l_i, db_tables, db_views, txn_views,
                  db0_tables, db0_views, l_raised >>
  /\ UNCHANGED << l_frames, db_rows, db0_rows, l_history >>
  /\ UNCHANGED not_l

\* load, lines 169-173: any other pair of arguments raises TypeError.
LoadTypeError ==
  /\ l_pc = "start"
  /\ ~IsEngineAndDict(arg1, arg2)
  /\ l_raised' = "TypeError"
  /\ l_pc' = "done"
  /\ UNCHANGED << arg1, arg2, l_tables, l_k, l_i, db_tables, db_views, txn_views,
                  db0_tables, db0_views >>
  /\ UNCHANGED << l_frames, db_rows, db0_rows, l_history >>
  /\ UNCHANGED not_l

\* load, lines 176-179: one table is written in a transaction of its own
\* (engine.begin()), committed when to_sql succeeds.
WriteTable ==
  /\ l_pc = "tables"
  /\ l_k <= Len(l_tables)
  /\ db_tables' = [db_tables EXCEPT ![l_tables[l_k]] = "new"]
  /\ db_rows' = [db_rows EXCEPT ![l_tables[l_k]] =
                   ToSqlReplace(@, SanitizeForSqlite(l_frames[l_tables[l_k]]))]
  /\ l_k' = l_k + 1
  /\ UNCHANGED << arg1, arg2, l_tables, l_pc, l_i, db_views, txn_views,
                  db0_tables, db0_views, l_raised >>
  /\ UNCHANGED << l_frames, db0_rows, l_history >>
  /\ UNCHANGED not_l

\* load, lines 178-179: to_sql fails; its transaction is rolled back and the
\* error leaves load.
WriteTableFails ==
  /\ l_pc = "tables"
  /\ l_k <= Len(l_tables)
  /\ l_raised' = "table"
  /\ l_pc' = "done"
  /\ UNCHANGED << arg1, arg2, l_tables, l_k, l_i, db_tables, db_views, txn_views,
                  db0_tables, db0_views >>
  /\ UNCHANGED << l_frames, db_rows, db0_rows, l_history >>
  /\ UNCHANGED not_l

\* load line 182, create_compat_views lines 52-140: the tables are written, the
\* statements are built and the transaction of the views begins.
BeginViews ==
  /\ l_pc = "tables"
  /\ l_k > Len(l_tables)
  /\ l_pc' = "views"
  /\ l_i' = 1
  /\ txn_views' = {}
  /\ UNCHANGED << arg1, arg2, l_tables, l_k, db_tables, db_views,
                  db0_tables, db0_views, l_raised >>
  /\ UNCHANGED << l_frames, db_rows, db0_rows, l_history >>
  /\ UNCHANGED not_l

\* create_compat_views, lines 141-142: CREATE VIEW IF NOT EXISTS. SQLite creates
\* the view without looking up what its SELECT reads; an existing view is kept.
\* A statement the store refuses rolls the transaction back and leaves load.
CreateView ==
  /\ l_pc = "views"
  /\ l_i <= Len(CompatViewStmts)
  /\ LET r == CreateViewIfNotExists(db_views \cup txn_views, CompatViewStmts[l_i].name) IN
       IF r.ok
       THEN /\ txn_views' = txn_views \cup r.created
            /\ l_i' = l_i + 1
            /\ UNCHANGED << l_pc, l_raised >>
       ELSE /\ txn_views' = {}
            /\ l_raised' = "exists"
            /\ l_pc' = "done"
            /\ UNCHANGED l_i
  /\ UNCHANGED << arg1, arg2, l_tables, l_k, db_tables, db_views,
                  db0_tables, db0_views >>
  /\ UNCHANGED << l_frames, db_rows, db0_rows, l_history >>
  /\ UNCHANGED not_l

\* create_compat_views, lines 140-142: the store rejects a statement; the
\* transaction is rolled back and the error leaves load.
CreateViewFails ==
  /\ l_pc = "views"
  /\ l_i <= Len(CompatViewStmts)
  /\ txn_views' = {}
  /\ l_raised' = "view"
  /\ l_pc' = "done"
  /\ UNCHANGED << arg1, arg2, l_tables, l_k, l_i, db_tables, db_views,
                  db0_tables, db0_views >>
  /\ UNCHANGED << l_frames, db_rows, db0_rows, l_history >>
  /\ UNCHANGED not_l

\* create_compat_views, line 140: the with block ends and the views are committed.
CommitViews ==
  /\ l_pc = "views"
  /\ l_i > Len(CompatViewStmts)
  /\ db_views' = db_views \cup txn_views
  /\ txn_views' = {}
  /\ l_pc' = "done"
  /\ UNCHANGED << arg1, arg2, l_tables, l_k, l_i, db_tables,
                  db0_tables, db0_views, l_raised >>
  /\ UNCHANGED << l_frames, db_rows, db0_rows, l_history >>
  /\ UNCHANGED not_l

\* The tables of the mappings loaded one after another on one store.
ReloadTables == { TABLES["orders"], TABLES["public_holidays"] }

Mappings == { MappingOf(keys, b) : keys \in SUBSET ReloadTables, b \in Batches }

\* A store, and a first call of load, for a sequence of loads.
LSeqInit ==
  /\ arg1 \in ArgKinds
  /\ arg2 \in ArgKinds
  /\ l_frames \in Mappings
  /\ l_tables = KeysInOrder(DOMAIN l_frames, 1)
  /\ l_pc = "start"
  /\ l_k = 0
  /\ l_i = 0
  /\ \/ db_tables = NoTables /\ db_views = {}
     \/ db_tables = OldTables /\ db_views = {}
     \/ db_tables = OldTables /\ db_views = CompatViews
  /\ txn_views = {}
  /\ db0_tables = db_tables
  /\ db0_views = db_views
  /\ l_raised = "none"
  /\ db_rows = RowsBefore(db_tables)
  /\ db0_rows = db_rows
  /\ l_history = << l_frames >>

\* The pipeline is run again (run_extract_load): load is called on the store
\* the last load has left, with the arguments in the same order and a mapping
\* of its own. What the last call wrote is now what the store held before.
LoadAgain ==
  /\ l_pc = "done"
  /\ l_raised = "none"
  /\ Len(l_history) < MaxLoads
  /\ \E m \in Mappings :
       /\ l_frames' = m
       /\ l_tables' = KeysInOrder(DOMAIN m, 1)
       /\ l_history' = Append(l_history, m)
  /\ l_pc' = "start"
  /\ l_k' = 0
  /\ l_i' = 0
  /\ db_tables' = [ t \in Physical |-> IF db_tables[t] = "new" THEN "old" ELSE db_tables[t] ]
  /\ db0_tables' = db_tables'
  /\ db0_views' = db_views
  /\ db0_rows' = db_rows
  /\ UNCHANGED << arg1, arg2, db_views, txn_views, l_raised, db_rows >>
  /\ UNCHANGED not_l

LNext ==
  \/ LoadResolve
  \/ LoadTypeError
  \/ WriteTable
  \/ WriteTableFails
  \/ BeginViews
  \/ CreateView
  \/ CreateViewFails
  \/ CommitViews

\* ------------------------------------------------------------------ properties of load
Failed == l_pc = "done" /\ l_raised \in {"table", "view"}

Loaded == l_pc = "done" /\ l_raised = "none"

MappingKeys == { l_tables[k] : k \in 1..Len(l_tables) }

\* The tables and views a statement of the open transaction can see.
ExistingNow == { t \in Physical : db_tables[t] # "absent" } \cup db_views \cup txn_views

\* The view statements whose view this call has created.
CreatedByThisCall ==
  { k \in 1..Len(CompatViewStmts) :
      CompatViewStmts[k].name \in (db_views \cup txn_views) \ db0_views }

\* The physical tables the mapping brings or the store held before the call.
Supplied == MappingKeys \cup { t \in Physical : db0_tables[t] # "absent" }

\* C9: load is all-or-nothing: when it fails, at the k-th table or at a view,
\* the store holds none of this call's tables and none of its views; only when
\* it succeeds are all of them committed.
C9_AllOrNothing ==
  /\ Failed => (db_tables = db0_tables /\ db_views = db0_views)
  /\ Loaded =>
       /\ \A t \in MappingKeys : db_tables[t] = "new"
       /\ CompatViews \subseteq db_views

StoreAndMapping == {arg1, arg2} = {"Engine", "dict"}

\* What the store holds after a load of the mapping, whatever the order in
\* which the two arguments were passed.
TablesAfterLoad == [ t \in Physical |-> IF t \in MappingKeys THEN "new" ELSE db0_tables[t] ]

ViewsAfterLoad == db0_views \cup CompatViews

\* C11: load tells its arguments apart by shape. A store handle paired with a
\* table mapping is accepted in either order and a completed load ends in
\* tables and views that depend on the mapping and the initial store only, not
\* on the order; any other pair raises TypeError before a table is written or
\* a view created, and the store is as it was.
C11_EitherOrder ==
  /\ l_pc \notin {"idle", "start"} => (l_raised = "TypeError" <=> ~StoreAndMapping)
  /\ l_raised = "TypeError" =>
       /\ l_pc = "done"
       /\ l_k = 0 /\ l_i = 0
       /\ db_tables = db0_tables /\ db_views = db0_views /\ txn_views = {}
  /\ Loaded => db_tables = TablesAfterLoad /\ db_views = ViewsAfterLoad

C11_Witness ==
  /\ Loaded
  /\ arg1 = "Engine" /\ arg2 = "dict"
  /\ MappingKeys # {}
  /\ db_tables = TablesAfterLoad
  /\ db_views = ViewsAfterLoad

\* The calls of load, so far, whose mapping held table t.
CallsWith(t) == { c \in 1..Len(l_history) : t \in DOMAIN l_history[c] }

\* The frame of t in the most recent of them.
LastFrameOf(t) == l_history[MaxOf(CallsWith(t))][t]

\* The rows of a frame as a table keeps them: a nested cell is stored as NULL.
AsStored(df) ==
  [ k \in 1..Len(df) |-> IF df[k].other = "nested" THEN [df[k] EXCEPT !.other = "null"] ELSE df[k] ]

TablesPresent(tags) == { t \in Physical : tags[t] # "absent" }

\* C12: after successful loads on one store every table holds exactly the rows
\* of the most recent load whose mapping had it (rows do not accumulate); a
\* repeated load is never refused because a view exists, creates no view and
\* leaves the views as they were; and loading the same mapping twice ends in
\* the store that loading it once has left.
C12_ReloadReplaces ==
  /\ Loaded => \A t \in Physical : CallsWith(t) # {} => db_rows[t] = AsStored(LastFrameOf(t))
  /\ l_raised # "exists"
  /\ Len(l_history) > 1 => txn_views = {} /\ db_views = db0_views
  /\ (Loaded /\ Len(l_history) > 1 /\ l_history[Len(l_history)] = l_history[Len(l_history) - 1]) =>
       /\ db_rows = db0_rows
       /\ db_views = db0_views
       /\ TablesPresent(db_tables) = TablesPresent(db0_tables)

C12_Witness ==
  /\ Loaded
  /\ Len(l_history) = 2
  /\ DOMAIN l_history[1] = ReloadTables
  /\ DOMAIN l_history[2] = { TABLES["orders"] }
  /\ db_rows[TABLES["orders"]] = AsStored(FrameOf(TABLES["orders"], "b"))
  /\ db_rows[TABLES["public_holidays"]] = FrameOf(TABLES["public_holidays"], "a")
  /\ db_views = CompatViews

\* The rows of the table orders kept by the delivered-order rule, by position.
DeliveredAt(rows) ==
  { i \in 1..Len(rows) :
      rows[i].order_status = "delivered" /\ rows[i].order_delivered_customer_date # "null" }

\* C19: after a load, with the orders table in the store, the view
\* delivered_orders exists and its rows are the rows of the orders table whose
\* status is 'delivered' and whose customer delivery timestamp is not NULL, in
\* the table's order; no row of the view has a NULL delivery timestamp; the
\* rows of the view are those the registry's DELIVERED_WHERE keeps.
C19_DeliveredOrders ==
  (Loaded /\ db_tables[TABLES["orders"]] # "absent") =>
    /\ "delivered_orders" \in db_views
    /\ Len(SelectFromDeliveredOrders(db_rows)) = Cardinality(DeliveredAt(db_rows[TABLES["orders"]]))
    /\ \A k \in 1..Len(SelectFromDeliveredOrders(db_rows)) :
         /\ SelectFromDeliveredOrders(db_rows)[k]
              = db_rows[TABLES["orders"]][KthOf(DeliveredAt(db_rows[TABLES["orders"]]), k)]
         /\ SelectFromDeliveredOrders(db_rows)[k].order_delivered_customer_date # "null"
         /\ SelectFromDeliveredOrders(db_rows)[k].order_status = "delivered"
    /\ \A i \in 1..Len(db_rows[TABLES["orders"]]) :
         DELIVERED_WHERE(db_rows[TABLES["orders"]][i]) <=> i \in DeliveredAt(db_rows[TABLES["orders"]])

\* A load has written the six orders of data set "a", among them a delivered
\* order without delivery timestamp; the view holds the one order that is
\* delivered and has a timestamp.
C19_Witness ==
  /\ Loaded
  /\ db_tables[TABLES["orders"]] = "new"
  /\ Len(db_rows[TABLES["orders"]]) = 6
  /\ db_rows[TABLES["orders"]][2] = Row("a", "delivered", "null", "text")
  /\ SelectFromDeliveredOrders(db_rows) = << Row("a", "delivered", "2017-01-05 10:00:00", "text") >>

\* ------------------------------------------------------------------ extract
\* _normalize_public_holidays, line 64
HolidayCols == << "date", "localName", "name", "countryCode", "fixed", "global", "launchYear" >>

\* What a JSON body decodes to: its kind ("null", "list", "dict", "int") and,
\* for a list its elements, for a dict its keys.
Json(kind, items) == [kind |-> kind, items |-> items]

JsonNone == Json("null", <<>>)

\* What one request to the feed can meet:
\*   refused      the connection cannot be opened (URLError)
\*   http_error   status 4xx or 5xx (HTTPError)
\*   status_204   a 2xx status other than 200
\*   reset        the server closes the connection without a reply
\*   timeout      the reply does not come in time
\*   truncated    the body ends before its announced length
\*   bad_utf8     the body is not UTF-8
\*   bad_json     the body is not JSON
\*   json_null, json_number (5), json_object ({"error": ..}), json_scalars
\*   ([1, 2]): JSON that is no array of objects
\*   json_empty_list, json_holidays (an array of holiday objects, the second
\*   with a date that cannot be parsed): what a working feed sends
FeedFailures ==
  { "refused", "http_error", "status_204", "reset", "timeout", "truncated",
    "bad_utf8", "bad_json", "json_null", "json_number", "json_object", "json_scalars" }

FeedOutcomes == FeedFailures \cup { "json_empty_list", "json_holidays" }

\* The exception in which urlopen, read, decode or json.loads ends ("none": none).
UrlopenRaises(o) ==
  CASE o = "refused" -> "URLError"
    [] o = "http_error" -> "HTTPError"
    [] o = "reset" -> "RemoteDisconnected"
    [] o = "timeout" -> "TimeoutError"
    [] o = "truncated" -> "IncompleteRead"
    [] o = "bad_utf8" -> "UnicodeDecodeError"
    [] o = "bad_json" -> "JSONDecodeError"
    [] OTHER -> "none"

\* except (URLError, HTTPError, ValueError), line 53: these and the subclasses
\* of ValueError.
CaughtByFetch == { "URLError", "HTTPError", "UnicodeDecodeError", "JSONDecodeError" }

\* json.loads(body), line 52
BodyOf(o) ==
  CASE o = "json_empty_list" -> Json("list", <<>>)
    [] o = "json_number" -> Json("int", <<>>)
    [] o = "json_object" -> Json("dict", << "error" >>)
    [] o = "json_scalars" -> Json("list", << "number", "number" >>)
    [] o = "json_holidays" -> Json("list", << "holiday", "holiday_bad_date" >>)
    [] OTHER -> JsonNone

\* _fetch_public_holidays_json: the decoded body, None on the failures it
\* handles, or the exception it lets through.
FetchPublicHolidaysJson(url, o) ==
  IF url \in {"None", ""} THEN [raised |-> "none", data |-> JsonNone]
  ELSE IF UrlopenRaises(o) \in CaughtByFetch THEN [raised |-> "none", data |-> JsonNone]
  ELSE IF UrlopenRaises(o) # "none" THEN [raised |-> UrlopenRaises(o), data |-> JsonNone]
  ELSE IF o = "status_204" THEN [raised |-> "none", data |-> JsonNone]
  ELSE [raised |-> "none", data |-> BodyOf(o)]

\* Python's truth value of the decoded body (`if not data`, line 65).
Truthy(data) ==
  CASE data.kind = "null" -> FALSE
    [] data.kind = "int" -> TRUE
    [] OTHER -> data.items # <<>>

\* An element that has .get: a JSON object.
IsObject(item) == item \in { "holiday", "holiday_bad_date" }

\* pd.to_datetime(x.get("date"), errors="coerce"), line 73
DateCell(item) == IF item = "holiday" THEN "2017-01-01 00:00:00" ELSE "NaT"

\* _normalize_public_holidays: the frame of 7 columns (of its cells the model
\* keeps the date), or the exception of the loop of line 70.
NormalizePublicHolidays(data) ==
  IF ~Truthy(data) THEN [raised |-> "none", frame |-> Table(HolidayCols, <<>>)]
  ELSE IF data.kind = "int" THEN [raised |-> "TypeError", frame |-> NoneValue]
  ELSE IF \E k \in 1..Len(data.items) : ~IsObject(data.items[k])
       THEN [raised |-> "AttributeError", frame |-> NoneValue]
  ELSE [raised |-> "none",
        frame |-> Table(HolidayCols, [ k \in 1..Len(data.items) |-> DateCell(data.items[k]) ])]

\* get_public_holidays: one fetch, then the normalisation of what it gave.
GetPublicHolidays(url, o) ==
  IF FetchPublicHolidaysJson(url, o).raised # "none"
  THEN [raised |-> FetchPublicHolidaysJson(url, o).raised, frame |-> NoneValue]
  ELSE NormalizePublicHolidays(FetchPublicHolidaysJson(url, o).data)

\* _read_csv_stable: the frame read from the file of table t.
ReadCsvStable(t) == Table(<< "csv" >>, << t >>)

\* result[k] = v
DictSet(d, k, v) == [ x \in (DOMAIN d) \cup {k} |-> IF x = k THEN v ELSE d[x] ]

NoRaise == [why |-> "none", table |-> "none"]

Raise(why, t) == [why |-> why, table |-> t]

NoReturn == [kind |-> "None", items |-> <<>>]

ReturnDict(d) == [kind |-> "dict", items |-> d]

\* Faulty variant: a table whose file is missing is passed over.
SkipMissingCsv(t) == [pc |-> "csv", raised |-> NoRaise]

\* lines 122-123: a missing file ends extract with FileNotFoundError.
OnMissingCsv(t) == [pc |-> "done", raised |-> Raise("FileNotFoundError", t)]

\* The tables a caller's mapping names.
CsvTables == { "olist_customers", "olist_orders", "public_holidays" }

\* The orders in which a dict can hold the keys S.
RECURSIVE Arrangements(_)
Arrangements(S) ==
  IF S = {} THEN { <<>> }
  ELSE UNION { { << t >> \o rest : rest \in Arrangements(S \ {t}) } : t \in S }

MappingOrders == UNION { Arrangements(S) : S \in SUBSET CsvTables }

EInit ==
  /\ table_to_csv \in MappingOrders
  /\ csv_present \in SUBSET CsvTables
  /\ \/ public_holidays_url \in {"None", ""} /\ feed = "refused"
     \/ public_holidays_url = "url" /\ feed \in FeedOutcomes
  /\ e_pc = "csv"
  /\ e_k = 1
  /\ e_result = << >>
  /\ e_returned = NoReturn
  /\ e_raised = NoRaise
  /\ e_exists = << >>
  /\ e_reads = << >>
  /\ e_requests = 0

\* lines 120-123: the file of the next entry is not there.
ExtractMissing ==
  /\ e_pc = "csv"
  /\ e_k <= Len(table_to_csv)
  /\ table_to_csv[e_k] \notin csv_present
  /\ e_exists' = Append(e_exists, table_to_csv[e_k])
  /\ e_pc' = OnMissingCsv(table_to_csv[e_k]).pc
  /\ e_raised' = OnMissingCsv(table_to_csv[e_k]).raised
  /\ e_k' = IF OnMissingCsv(table_to_csv[e_k]).pc = "csv" THEN e_k + 1 ELSE e_k
  /\ UNCHANGED << table_to_csv, csv_present, public_holidays_url, feed, e_result,
                  e_returned, e_reads, e_requests >>
  /\ UNCHANGED not_e

\* lines 120-124: the file of the next entry is there and is read.
ExtractRead ==
  /\ e_pc = "csv"
  /\ e_k <= Len(table_to_csv)
  /\ table_to_csv[e_k] \in csv_present
  /\ e_exists' = Append(e_exists, table_to_csv[e_k])
  /\ e_reads' = Append(e_reads, table_to_csv[e_k])
  /\ e_result' = DictSet(e_result, table_to_csv[e_k], ReadCsvStable(table_to_csv[e_k]))
  /\ e_k' = e_k + 1
  /\ UNCHANGED << table_to_csv, csv_present, public_holidays_url, feed, e_pc,
                  e_returned, e_raised, e_requests >>
  /\ UNCHANGED not_e

\* lines 128, 130-135: no URL was given; the empty holiday frame is added and
\* the dict returned.
ExtractNoFeed ==
  /\ e_pc = "csv"
  /\ e_k > Len(table_to_csv)
  /\ public_holidays_url \in {"None", ""}
  /\ e_result' = DictSet(e_result, "public_holidays", NormalizePublicHolidays(JsonNone).frame)
  /\ e_returned' = ReturnDict(e_result')
  /\ e_pc' = "done"
  /\ UNCHANGED << table_to_csv, csv_present, public_holidays_url, feed, e_k,
                  e_raised, e_exists, e_reads, e_requests >>
  /\ UNCHANGED not_e

\* lines 128-129, 134-135: the feed is asked once; its frame is added and the
\* dict returned, or the exception get_public_holidays lets through leaves extract.
ExtractFeed ==
  /\ e_pc = "csv"
  /\ e_k > Len(table_to_csv)
  /\ public_holidays_url = "url"
  /\ e_requests' = e_requests + 1
  /\ LET h == GetPublicHolidays(public_holidays_url, feed) IN
       IF h.raised = "none"
       THEN /\ e_result' = DictSet(e_result, "public_holidays", h.frame)
            /\ e_returned' = ReturnDict(e_result')
            /\ UNCHANGED e_raised
       ELSE /\ e_raised' = Raise(h.raised, "public_holidays")
            /\ UNCHANGED << e_result, e_returned >>
  /\ e_pc' = "done"
  /\ UNCHANGED << table_to_csv, csv_present, public_holidays_url, feed, e_k,
                  e_exists, e_reads >>
  /\ UNCHANGED not_e

ENext ==
  \/ ExtractMissing
  \/ ExtractRead
  \/ ExtractNoFeed
  \/ ExtractFeed

EIdle ==
  /\ table_to_csv = << >>
  /\ csv_present = {}
  /\ public_holidays_url = "None"
  /\ feed = "refused"
  /\ e_pc = "idle"
  /\ e_k = 0
  /\ e_result = << >>
  /\ e_returned = NoReturn
  /\ e_raised = NoRaise
  /\ e_exists = << >>
  /\ e_reads = << >>
  /\ e_requests = 0

\* ------------------------------------------------------------------ properties of extract
Extracted == e_pc = "done" /\ e_returned.kind = "dict"

MappingTables == { table_to_csv[k] : k \in 1..Len(table_to_csv) }

\* The entries of the mapping whose file is absent.
MissingAt == { k \in 1..Len(table_to_csv) : table_to_csv[k] \notin csv_present }

NoRepeat(seq) == \A i, j \in 1..Len(seq) : seq[i] = seq[j] => i = j

\* C13: extract returns a mapping only if the file of every entry exists. With
\* a file absent it ends in FileNotFoundError naming the table of the first
\* absent file in the mapping's order, returns nothing, and no file is looked
\* for or read a second time.
C13_MissingSourceFatal ==
  /\ Extracted => MappingTables \subseteq csv_present
  /\ (e_pc = "done" /\ MissingAt # {}) =>
       /\ e_raised = Raise("FileNotFoundError", table_to_csv[MinOf(MissingAt)])
       /\ e_returned.kind = "None"
       /\ e_requests = 0
  /\ NoRepeat(e_exists)
  /\ NoRepeat(e_reads)
  /\ \A k \in 1..Len(e_reads) : e_reads[k] \in csv_present

C13_Witness ==
  /\ e_pc = "done"
  /\ Len(table_to_csv) = 3
  /\ MissingAt = {2, 3}
  /\ e_raised = Raise("FileNotFoundError", table_to_csv[2])
  /\ e_reads = << table_to_csv[1] >>
  /\ e_exists = << table_to_csv[1], table_to_csv[2] >>
  /\ e_returned.kind = "None"

\* C14: with a feed URL given and every source file present, whatever failure
\* the one request to the feed meets, extract does not fail: it has asked once
\* and returns every primary table and an empty holiday table of the 7 columns.
C14_FeedNeverFatal ==
  (e_pc = "done" /\ public_holidays_url = "url" /\ MappingTables \subseteq csv_present
     /\ feed \in FeedFailures) =>
    /\ e_raised = NoRaise
    /\ e_requests = 1
    /\ e_returned.kind = "dict"
    /\ DOMAIN e_returned.items = MappingTables \cup {"public_holidays"}
    /\ e_returned.items["public_holidays"] = Table(HolidayCols, <<>>)

\* ------------------------------------------------------------------ extract, then load
\* run_extract_load (run_pipeline.py:32-39): the dict extract returns is
\* passed to load with the engine.

\* The engine run_extract_load is given: a new database, or one that an
\* earlier run has filled. load has not been called yet.
EngineWaiting ==
  /\ arg1 = "dict"
  /\ arg2 = "Engine"
  /\ l_tables = <<>>
  /\ l_pc = "idle"
  /\ l_k = 0
  /\ l_i = 0
  /\ \/ db_tables = NoTables /\ db_views = {}
     \/ db_tables = OldTables /\ db_views = CompatViews
  /\ txn_views = {}
  /\ db0_tables = db_tables
  /\ db0_views = db_views
  /\ l_raised = "none"
  /\ l_frames = << >>
  /\ db_rows = RowsBefore(db_tables)
  /\ db0_rows = db_rows
  /\ l_history = << >>

\* Faulty variant: only the tables read from files are handed on.
FileTablesInOrder(mapping, items) ==
  SelectSeq(mapping, LAMBDA t : t \in DOMAIN items /\ t # "public_holidays")

\* tables.items(), load.py:176, on the dict extract built: its keys in
\* insertion order, those of the mapping (extract.py:124) and then
\* public_holidays (extract.py:129, 132) unless the mapping named it already.
ItemsInOrder(mapping, items) ==
  SelectSeq(IF \E k \in 1..Len(mapping) : mapping[k] = "public_holidays"
            THEN mapping ELSE Append(mapping, "public_holidays"),
            LAMBDA t : t \in DOMAIN items)

\* A frame of extract as load sees it: one row for each of its rows.
AsLoadFrame(table) == [ k \in 1..Len(table.rows) |-> Row("a", "n/a", "n/a", "text") ]

\* run_pipeline.py:39: load(data_frames=tables, database=engine) with the dict
\* extract returned. An exception of extract (line 37) leaves run_extract_load
\* before this line.
RunLoad ==
  /\ Extracted
  /\ l_pc = "idle"
  /\ arg1' = "dict"
  /\ arg2' = "Engine"
  /\ l_tables' = ItemsInOrder(table_to_csv, e_returned.items)
  /\ l_frames' = [ t \in DOMAIN e_returned.items |-> AsLoadFrame(e_returned.items[t]) ]
  /\ l_history' = << l_frames' >>
  /\ l_pc' = "start"
  /\ UNCHANGED << l_k, l_i, db_tables, db_views, txn_views, db0_tables, db0_views,
                  l_raised, db_rows, db0_rows >>
  /\ UNCHANGED not_l

\* query_orders_per_day_and_holidays_2017, transform.py:309-315:
\* SELECT date(date) AS date, 1 AS is_holiday FROM public_holidays. SQLite
\* raises OperationalError (no such table) when the table is not there.
SelectFromPublicHolidays(tables, rows) ==
  IF tables[TABLES["public_holidays"]] = "absent"
  THEN [raised |-> "OperationalError", rows |-> << >>]
  ELSE [raised |-> "none", rows |-> rows[TABLES["public_holidays"]]]

\* C22: every call of extract that returns gives a dict whose table names are
\* the keys of the mapping and public_holidays, the holiday table having the 7
\* fixed columns whether no URL was given, the feed failed or the feed
\* answered; load is handed exactly these tables, and once it has returned the
\* store holds a public_holidays table with the rows of that frame, so the
\* query that reads public_holidays does not meet a missing table.
C22_HolidayTableAlways ==
  /\ Extracted =>
       /\ DOMAIN e_returned.items = MappingTables \cup {"public_holidays"}
       /\ e_returned.items["public_holidays"].kind = "DataFrame"
       /\ e_returned.items["public_holidays"].cols = HolidayCols
       /\ Len(e_returned.items["public_holidays"].cols) = 7
  /\ l_pc # "idle" =>
       /\ Extracted
       /\ MappingKeys = MappingTables \cup {"public_holidays"}
  /\ Loaded =>
       /\ db_tables["public_holidays"] = "new"
       /\ Len(db_rows["public_holidays"]) = Len(e_returned.items["public_holidays"].rows)
       /\ SelectFromPublicHolidays(db_tables, db_rows).raised = "none"
       /\ Len(SelectFromPublicHolidays(db_tables, db_rows).rows)
            = Len(e_returned.items["public_holidays"].rows)

\* A new database, a mapping of two files without public_holidays, a feed
\* that refuses the connection: load has returned.
C22_Witness ==
  /\ Loaded
  /\ Extracted
  /\ db0_tables = NoTables
  /\ Len(table_to_csv) = 2
  /\ "public_holidays" \notin MappingTables
  /\ public_holidays_url = "url"
  /\ feed = "refused"
  /\ e_requests = 1

\* ------------------------------------------------------------------ the cleaner's tables
\* A cell: a string (its text without the blanks around it, and the number
\* of blanks on each side), a Timestamp, NaT, NaN/None, or an integer.
Str(v, pad) == [t |-> "str", v |-> v, pad |-> pad]

Ts(v) == [t |-> "ts", v |-> v, pad |-> 0]

NaT == [t |-> "nat", v |-> "", pad |-> 0]

NaN == [t |-> "nan", v |-> "", pad |-> 0]

Integer(v) == [t |-> "int", v |-> v, pad |-> 0]

\* A DataFrame: column names, their dtypes ("object", "datetime64", "int64",
\* "float64") and the rows, each a tuple of cells in column order.
Frame(cols, dtypes, rows) == [cols |-> cols, dtypes |-> dtypes, rows |-> rows]

\* cleaner.py:34-52
DATE_COLUMNS_KNOWN ==
  { "order_purchase_timestamp", "order_approved_at", "order_delivered_carrier_date",
    "order_delivered_customer_date", "order_estimated_delivery_date",
    "shipping_limit_date", "review_creation_date", "review_creation_timestamp",
    "review_answer_timestamp", "review_answer_date", "date" }

\* cleaner.py:55-57
HOLIDAYS_TABLE_HINTS == { "public_holidays", "holidays", "brazil_public_holidays", "feriados" }

\* table_name.lower()
Lower(name) == IF name = "Holidays" THEN "holidays" ELSE name

\* The texts pandas reads as a date, with their time of day.
DateTexts ==
  { "2017-01-05 10:00:00", "2017-01-05 00:00:00",
    "1970-01-01 00:00:00.000000005", "1970-01-01 00:00:00" }

\* df.empty
IsEmptyFrame(df) == df.rows = <<>> \/ df.cols = <<>>

ColumnNames(df) == { df.cols[j] : j \in 1..Len(df.cols) }

\* Faulty variant: one blank is taken from each side.
TrimOneBlank(c) == IF c.t = "str" /\ c.pad > 0 THEN [c EXCEPT !.pad = c.pad - 1] ELSE c

\* x.strip() if isinstance(x, str) else x, line 77
StripCell(c) == IF c.t = "str" THEN [c EXCEPT !.pad = 0] ELSE c

\* pd.to_datetime(..., errors="coerce") on one value: a text that is a date
\* becomes a Timestamp, an integer the Timestamp that many nanoseconds after
\* the epoch, a Timestamp stays, anything else becomes NaT.
ToDatetimeCell(c) ==
  CASE c.t = "str" -> IF c.v \in DateTexts THEN Ts(c.v) ELSE NaT
    [] c.t = "ts" -> c
    [] c.t = "int" -> Ts("1970-01-01 00:00:00.00000000" \o c.v)
    [] OTHER -> NaT

\* .dt.normalize(): the time of day is set to midnight.
NormalizeCell(c) ==
  IF c.t = "ts" /\ c.v = "2017-01-05 10:00:00" THEN Ts("2017-01-05 00:00:00")
  ELSE IF c.t = "ts" /\ c.v = "1970-01-01 00:00:00.000000005" THEN Ts("1970-01-01 00:00:00")
  ELSE c

\* The frame with the cells of the columns ch(name, dtype) changed by f and
\* their dtype set by dt.
MapColumns(df, ch(_, _), f(_), dt(_)) ==
  [ cols |-> df.cols,
    dtypes |-> [ j \in 1..Len(df.cols) |->
                 IF ch(df.cols[j], df.dtypes[j]) THEN dt(df.dtypes[j]) ELSE df.dtypes[j] ],
    rows |-> [ i \in 1..Len(df.rows) |->
               [ j \in 1..Len(df.cols) |->
                 IF ch(df.cols[j], df.dtypes[j]) THEN f(df.rows[i][j]) ELSE df.rows[i][j] ] ] ]

IsObjectColumn(name, dtype) == dtype = "object"

IsKnownDateColumn(name, dtype) == name \in DATE_COLUMNS_KNOWN

IsDateColumn(name, dtype) == name = "date"

SameDtype(d) == d

Datetime64(d) == "datetime64"

NormalizedDate(c) == NormalizeCell(ToDatetimeCell(c))

\* _strip_object_columns, lines 70-77, on the values of a frame
Stripped(df) ==
  IF IsEmptyFrame(df) THEN df ELSE MapColumns(df, IsObjectColumn, StripCell, SameDtype)

\* _parse_dates_safe, lines 83-90, on the values of a frame
DatesParsed(df) ==
  IF IsEmptyFrame(df) THEN df ELSE MapColumns(df, IsKnownDateColumn, ToDatetimeCell, Datetime64)

\* _normalize_holidays_date, lines 96-101, on the values of a frame
HolidaysNormalized(df) ==
  IF IsEmptyFrame(df) \/ "date" \notin ColumnNames(df) THEN df
  ELSE MapColumns(df, IsDateColumn, NormalizedDate, Datetime64)

\* Frames are objects: the heap is the sequence of the frames allocated so far,
\* a frame's identity its index. df.copy() allocates.
Copy(heap, id) == [heap |-> Append(heap, heap[id]), id |-> Len(heap) + 1]

\* Faulty variant: the columns are stripped in the frame that was passed in.
StripInPlace(heap, id) == [heap |-> [heap EXCEPT ![id] = Stripped(@)], id |-> id]

\* _strip_object_columns: a copy is made and changed.
StripObjectColumns(heap, id) ==
  [ heap |-> [Copy(heap, id).heap EXCEPT ![Copy(heap, id).id] = Stripped(@)],
    id |-> Copy(heap, id).id ]

\* _parse_dates_safe
ParseDatesSafe(heap, id) ==
  [ heap |-> [Copy(heap, id).heap EXCEPT ![Copy(heap, id).id] = DatesParsed(@)],
    id |-> Copy(heap, id).id ]

\* _normalize_holidays_date
NormalizeHolidaysDate(heap, id) ==
  [ heap |-> [Copy(heap, id).heap EXCEPT ![Copy(heap, id).id] = HolidaysNormalized(@)],
    id |-> Copy(heap, id).id ]

\* clean, lines 123-128: the three steps on the frame of table name.
CleanedTable(heap, name, id) ==
  IF Lower(name) \in HOLIDAYS_TABLE_HINTS
  THEN NormalizeHolidaysDate(ParseDatesSafe(StripObjectColumns(heap, id).heap,
                                            StripObjectColumns(heap, id).id).heap,
                             ParseDatesSafe(StripObjectColumns(heap, id).heap,
                                            StripObjectColumns(heap, id).id).id)
  ELSE ParseDatesSafe(StripObjectColumns(heap, id).heap, StripObjectColumns(heap, id).id)

\* ------------------------------------------------------------------ the tables given to clean
\* A column of the input: its name, its dtype and the cells it can hold.
Text == [name |-> "city", dtype |-> "object",
         cells |-> { Str("x", 0), Str("x", 2), Str("", 1), NaN, Integer("5") }]

DateAsText == [name |-> "date", dtype |-> "object",
               cells |-> { Str("2017-01-05 10:00:00", 0), Str("2017-01-05 10:00:00", 1),
                           Str("not a date", 0), NaN }]

DateAsTimestamp == [name |-> "date", dtype |-> "datetime64",
                    cells |-> { Ts("2017-01-05 10:00:00"), Ts("2017-01-05 00:00:00"), NaT }]

ApprovedAt == [name |-> "order_approved_at", dtype |-> "object",
               cells |-> { Str("2017-01-05 10:00:00", 1), Str("not a date", 1) }]

CreatedAt == [name |-> "created_at", dtype |-> "datetime64",
              cells |-> { Ts("2017-01-05 10:00:00"), NaT }]

Quantity == [name |-> "qty", dtype |-> "int64", cells |-> { Integer("5") }]

RECURSIVE SeqsUpTo(_, _)
SeqsUpTo(S, n) ==
  IF n = 0 THEN { <<>> }
  ELSE SeqsUpTo(S, n - 1) \cup { Append(q, x) : q \in { r \in SeqsUpTo(S, n - 1) : Len(r) = n - 1 }, x \in S }

\* The frames of one column and up to MaxRows rows.
OneColumn(spec) ==
  { Frame(<< spec.name >>, << spec.dtype >>, [ i \in 1..Len(col) |-> << col[i] >> ]) :
      col \in SeqsUpTo(spec.cells, MaxRows) }

\* Frames of several columns: text beside a date to parse, with one row that
\* parses and one that does not; every dtype side by side; columns without a row.
SeveralColumns ==
  { Frame(<< "city", "date" >>, << "object", "object" >>,
          << << Str("x", 1), Str("2017-01-05 10:00:00", 1) >>,
             << NaN, Str("not a date", 0) >> >>),
    Frame(<< "qty", "created_at", "order_approved_at", "city" >>,
          << "int64", "datetime64", "object", "object" >>,
          << << Integer("5"), Ts("2017-01-05 10:00:00"), Str("2017-01-05 00:00:00", 0), Integer("5") >> >>),
    Frame(<< "date", "city" >>, << "object", "object" >>, <<>>) }

\* The frames a table of the given name can be.
FramesFor(name) ==
  IF Lower(name) \in HOLIDAYS_TABLE_HINTS
  THEN OneColumn(DateAsText) \cup OneColumn(DateAsTimestamp) \cup OneColumn(Text)
       \cup SeveralColumns
  ELSE OneColumn(Text) \cup OneColumn(DateAsText) \cup OneColumn(ApprovedAt)
       \cup OneColumn(CreatedAt) \cup OneColumn(Quantity) \cup SeveralColumns

\* The names of the tables given to clean, in the order of the dict.
CleanNames == << "olist_orders", "Holidays" >>

RECURSIVE NamesInOrder(_, _)
NamesInOrder(keys, k) ==
  IF k > Len(CleanNames) THEN <<>>
  ELSE IF CleanNames[k] \in keys THEN << CleanNames[k] >> \o NamesInOrder(keys, k + 1)
  ELSE NamesInOrder(keys, k + 1)

\* The table mappings given to clean.
TableMappings ==
  UNION { { f \in [ keys -> UNION { FramesFor(n) : n \in keys } ] :
              \A n \in keys : f[n] \in FramesFor(n) } :
          keys \in SUBSET { CleanNames[k] : k \in 1..Len(CleanNames) } }

\* ------------------------------------------------------------------ the output directory
\* A CSV file: the header and, row by row, the text of every field; a text
\* keeps the blanks around it.
NoFile == [present |-> FALSE, cols |-> <<>>, rows |-> <<>>]

Field(v, pad) == [v |-> v, pad |-> pad]

EmptyField == Field("", 0)

\* The names <name>.csv can take in out_dir.
DiskNames == { "olist_orders", "Holidays", "old_table" }

NoSchemaFile == [present |-> FALSE, tables |-> <<>>]

\* _schema.json holding the dict tables: the entries name -> date columns, in order.
SchemaFile(tables) == [present |-> TRUE, tables |-> tables]

SchemaEntry(name, date_cols) == [name |-> name, date_cols |-> date_cols]

\* _DATE_COLUMNS_KNOWN in sorted order.
DateColumnsSorted ==
  << "date", "order_approved_at", "order_delivered_carrier_date",
     "order_delivered_customer_date", "order_estimated_delivery_date",
     "order_purchase_timestamp", "review_answer_date", "review_answer_timestamp",
     "review_creation_date", "review_creation_timestamp", "shipping_limit_date" >>

\* _infer_date_columns: sorted(set(df.columns) & _DATE_COLUMNS_KNOWN)
InferDateColumns(df) ==
  LET Present(name) == name \in ColumnNames(df)
  IN SelectSeq(DateColumnsSorted, Present)

\* df.to_csv(index=False) on one cell: NaN, None and NaT give an empty field.
ToCsvField(c) ==
  CASE c.t = "str" -> Field(c.v, c.pad)
    [] c.t \in {"ts", "int", "float"} -> Field(c.v, 0)
    [] OTHER -> EmptyField

\* df.to_csv(out_path, index=False)
ToCsv(df) ==
  [ present |-> TRUE,
    cols |-> df.cols,
    rows |-> [ i \in 1..Len(df.rows) |->
               [ j \in 1..Len(df.cols) |-> ToCsvField(df.rows[i][j]) ] ] ]

ColumnFields(file, j) == { file.rows[i][j] : i \in 1..Len(file.rows) }

IsDateField(f) == f.pad = 0 /\ f.v \in DateTexts

IsIntField(f) == f.pad = 0 /\ f.v = "5"

\* The dtype pandas gives a column of a file without rows when the column is
\* listed in parse_dates: it depends on the pandas release.
EmptyDateDtypes == { "object", "datetime64" }

\* pd.read_csv: the dtype of column j. A column listed in parse_dates becomes
\* datetime64 when every field is a date or empty; the others are inferred:
\* int64, float64 (numbers with empty fields), object.
ReadDtype(file, j, date_cols, empty_dtype) ==
  IF file.rows = <<>>
  THEN IF \E k \in 1..Len(date_cols) : date_cols[k] = file.cols[j] THEN empty_dtype
       ELSE "object"
  ELSE IF /\ \E k \in 1..Len(date_cols) : date_cols[k] = file.cols[j]
          /\ \A f \in ColumnFields(file, j) : f = EmptyField \/ IsDateField(f)
       THEN "datetime64"
  ELSE IF \A f \in ColumnFields(file, j) : IsIntField(f) THEN "int64"
  ELSE IF \A f \in ColumnFields(file, j) : f = EmptyField \/ IsIntField(f) THEN "float64"
  ELSE "object"

\* pd.read_csv: the value of a field in a column of the given dtype.
ReadCell(f, dtype) ==
  CASE dtype = "datetime64" -> IF f = EmptyField THEN NaT ELSE Ts(f.v)
    [] dtype = "int64" -> Integer(f.v)
    [] dtype = "float64" ->
         IF f = EmptyField THEN NaN ELSE [t |-> "float", v |-> f.v \o ".0", pad |-> 0]
    [] OTHER -> IF f = EmptyField THEN NaN ELSE Str(f.v, f.pad)

\* pd.read_csv(csv_path, parse_dates=date_cols); every listed column is a
\* column of the file.
ReadCsv(file, date_cols, empty_dtype) ==
  [ cols |-> file.cols,
    dtypes |-> [ j \in 1..Len(file.cols) |-> ReadDtype(file, j, date_cols, empty_dtype) ],
    rows |-> [ i \in 1..Len(file.rows) |->
               [ j \in 1..Len(file.cols) |->
                 ReadCell(file.rows[i][j], ReadDtype(file, j, date_cols, empty_dtype)) ] ] ]

\* save_cleaned, lines 143-149: the dict schema after the loop over names.
RECURSIVE SchemaOf(_, _, _)
SchemaOf(names, cleaned, heap) ==
  IF names = <<>> THEN <<>>
  ELSE << SchemaEntry(Head(names), InferDateColumns(heap[cleaned[Head(names)]])) >>
       \o SchemaOf(Tail(names), cleaned, heap)

\* Faulty variant: the entries of the new dict are added to the sidecar found
\* in out_dir.
SchemaMerged(old, new) ==
  LET Replaced(e) == \A k \in 1..Len(new) : new[k].name # e.name
  IN SchemaFile(SelectSeq(old.tables, Replaced) \o new)

\* save_cleaned, lines 150-152: open(schema_path, "w") and json.dump(schema):
\* the sidecar holds the dict of this call, whatever it held before.
SchemaRewritten(old, new) == SchemaFile(new)

\* A directory no save has written to.
EmptyDisk == [ n \in DiskNames |-> NoFile ]

\* A directory an earlier save has left: old_table and olist_orders were saved.
StaleCsv ==
  [ n \in DiskNames |->
      IF n = "old_table"
      THEN [present |-> TRUE, cols |-> << "date" >>, rows |-> << << Field("2017-01-05 00:00:00", 0) >> >>]
      ELSE IF n = "olist_orders"
      THEN [present |-> TRUE, cols |-> << "city" >>, rows |-> << << Field("x", 0) >> >>]
      ELSE NoFile ]

StaleSchema ==
  SchemaFile(<< SchemaEntry("old_table", << "date" >>), SchemaEntry("olist_orders", <<>>) >>)

\* Faulty variant: a listed table without its file ends load_cleaned with an error.
RaiseOnMissingTable(name) == [pc |-> "done", raised |-> "FileNotFoundError"]

\* lines 169-171: a listed table without its file is passed over.
OnMissingTable(name) == [pc |-> "load", raised |-> "none"]

\* ------------------------------------------------------------------ clean, save_cleaned, load_cleaned
\* The cleaner before clean(T), with out_dir as given.
CStart(T, csv, schema) ==
  /\ c_T = T
  /\ c_names = NamesInOrder(DOMAIN T, 1)
  /\ c_heap = [ k \in 1..Len(c_names) |-> T[c_names[k]] ]
  /\ c_input = [ n \in DOMAIN T |-> CHOOSE k \in 1..Len(c_names) : c_names[k] = n ]
  /\ c_cleaned = << >>
  /\ c_first = << >>
  /\ c_pass = 1
  /\ c_pc = "clean"
  /\ c_k = 1
  /\ disk_csv = csv
  /\ disk_schema = schema
  /\ p_schema = << >>
  /\ p_loaded = << >>
  /\ p_raised = "none"
  /\ p_exists = << >>
  /\ p_reads = << >>
  /\ p_saves = 0

CInit == \E T \in TableMappings : CStart(T, EmptyDisk, NoSchemaFile)

\* The tables saved and loaded again: the frames of several columns, a
\* timestamp column of another name, a date column with a missing value.
SavedFrames ==
  SeveralColumns \cup
  { Frame(<< "created_at" >>, << "datetime64" >>, << << Ts("2017-01-05 10:00:00") >> >>),
    Frame(<< "date" >>, << "object" >>,
          << << Str("2017-01-05 10:00:00", 1) >>, << NaN >> >>) }

SavedMappings ==
  UNION { [ keys -> SavedFrames ] : keys \in SUBSET { CleanNames[k] : k \in 1..Len(CleanNames) } }

PInit ==
  \E T \in SavedMappings :
    \/ CStart(T, EmptyDisk, NoSchemaFile)
    \/ CStart(T, StaleCsv, StaleSchema)

\* clean, lines 121-131: one table.
CleanTable ==
  /\ c_pc = "clean"
  /\ c_k <= Len(c_names)
  /\ c_heap' = CleanedTable(c_heap, c_names[c_k], c_input[c_names[c_k]]).heap
  /\ c_cleaned' = DictSet(c_cleaned, c_names[c_k],
                          CleanedTable(c_heap, c_names[c_k], c_input[c_names[c_k]]).id)
  /\ c_k' = c_k + 1
  /\ UNCHANGED << c_T, c_names, c_input, c_first, c_pass, c_pc, disk_csv, disk_schema,
                  p_schema, p_loaded, p_raised, p_exists, p_reads, p_saves >>
  /\ UNCHANGED not_c

\* clean, line 134
CleanReturn ==
  /\ c_pc = "clean"
  /\ c_k > Len(c_names)
  /\ c_pc' = "cleaned"
  /\ UNCHANGED << c_T, c_names, c_heap, c_input, c_cleaned, c_first, c_pass, c_k,
                  disk_csv, disk_schema, p_schema, p_loaded, p_raised, p_exists, p_reads,
                  p_saves >>
  /\ UNCHANGED not_c

\* clean is called on the mapping it returned.
CleanAgain ==
  /\ c_pc = "cleaned"
  /\ c_pass = 1
  /\ c_first' = [ n \in DOMAIN c_cleaned |-> c_heap[c_cleaned[n]] ]
  /\ c_input' = c_cleaned
  /\ c_cleaned' = << >>
  /\ c_pass' = 2
  /\ c_pc' = "clean"
  /\ c_k' = 1
  /\ UNCHANGED << c_T, c_names, c_heap, disk_csv, disk_schema, p_schema, p_loaded,
                  p_raised, p_exists, p_reads, p_saves >>
  /\ UNCHANGED not_c

\* save_cleaned(cleaned): every table is written to <name>.csv, then _schema.json.
SaveCleaned ==
  /\ c_pc = "cleaned"
  /\ c_pass = 1
  /\ p_schema' = SchemaOf(c_names, c_cleaned, c_heap)
  /\ disk_csv' = [ n \in DiskNames |->
                   IF n \in DOMAIN c_cleaned THEN ToCsv(c_heap[c_cleaned[n]]) ELSE disk_csv[n] ]
  /\ disk_schema' = SchemaRewritten(disk_schema, p_schema')
  /\ p_saves' = p_saves + 1
  /\ c_pc' = "saved"
  /\ UNCHANGED << c_T, c_names, c_heap, c_input, c_cleaned, c_first, c_pass, c_k,
                  p_loaded, p_raised, p_exists, p_reads >>
  /\ UNCHANGED not_c

\* Between the calls, a table file is removed from out_dir.
RemoveCsv ==
  /\ c_pc \in {"cleaned", "saved"}
  /\ c_pass = 1
  /\ \E n \in DiskNames :
       /\ disk_csv[n].present
       /\ disk_csv' = [disk_csv EXCEPT ![n] = NoFile]
  /\ UNCHANGED << c_T, c_names, c_heap, c_input, c_cleaned, c_first, c_pass, c_pc, c_k,
                  disk_schema, p_schema, p_loaded, p_raised, p_exists, p_reads, p_saves >>
  /\ UNCHANGED not_c

\* Between the calls, _schema.json is removed from out_dir.
RemoveSchema ==
  /\ c_pc \in {"cleaned", "saved"}
  /\ c_pass = 1
  /\ disk_schema.present
  /\ disk_schema' = NoSchemaFile
  /\ UNCHANGED << c_T, c_names, c_heap, c_input, c_cleaned, c_first, c_pass, c_pc, c_k,
                  disk_csv, p_schema, p_loaded, p_raised, p_exists, p_reads, p_saves >>
  /\ UNCHANGED not_c

\* load_cleaned, lines 160-162: no _schema.json.
LoadMissingSchema ==
  /\ c_pc \in {"cleaned", "saved"}
  /\ c_pass = 1
  /\ ~disk_schema.present
  /\ p_exists' = << "_schema.json" >>
  /\ p_raised' = "FileNotFoundError"
  /\ c_pc' = "done"
  /\ UNCHANGED << c_T, c_names, c_heap, c_input, c_cleaned, c_first, c_pass, c_k,
                  disk_csv, disk_schema, p_schema, p_loaded, p_reads, p_saves >>
  /\ UNCHANGED not_c

\* load_cleaned, lines 160-166: _schema.json is read.
LoadSchema ==
  /\ c_pc \in {"cleaned", "saved"}
  /\ c_pass = 1
  /\ disk_schema.present
  /\ p_exists' = << "_schema.json" >>
  /\ p_schema' = disk_schema.tables
  /\ p_loaded' = << >>
  /\ c_pc' = "load"
  /\ c_k' = 1
  /\ UNCHANGED << c_T, c_names, c_heap, c_input, c_cleaned, c_first, c_pass,
                  disk_csv, disk_schema, p_raised, p_reads, p_saves >>
  /\ UNCHANGED not_c

\* load_cleaned, lines 167-171: the file of the next listed table is not there.
LoadSkip ==
  /\ c_pc = "load"
  /\ c_k <= Len(p_schema)
  /\ ~disk_csv[p_schema[c_k].name].present
  /\ p_exists' = Append(p_exists, p_schema[c_k].name)
  /\ c_pc' = OnMissingTable(p_schema[c_k].name).pc
  /\ p_raised' = OnMissingTable(p_schema[c_k].name).raised
  /\ c_k' = c_k + 1
  /\ UNCHANGED << c_T, c_names, c_heap, c_input, c_cleaned, c_first, c_pass,
                  disk_csv, disk_schema, p_schema, p_loaded, p_reads, p_saves >>
  /\ UNCHANGED not_c

\* load_cleaned, lines 167-173: the file of the next listed table is read.
LoadRead ==
  /\ c_pc = "load"
  /\ c_k <= Len(p_schema)
  /\ disk_csv[p_schema[c_k].name].present
  /\ p_exists' = Append(p_exists, p_schema[c_k].name)
  /\ p_reads' = Append(p_reads, p_schema[c_k].name)
  /\ \E d \in EmptyDateDtypes :
       p_loaded' = DictSet(p_loaded, p_schema[c_k].name,
                           ReadCsv(disk_csv[p_schema[c_k].name], p_schema[c_k].date_cols, d))
  /\ c_k' = c_k + 1
  /\ UNCHANGED << c_T, c_names, c_heap, c_input, c_cleaned, c_first, c_pass, c_pc,
                  disk_csv, disk_schema, p_schema, p_raised, p_saves >>
  /\ UNCHANGED not_c

\* load_cleaned, line 175
LoadReturn ==
  /\ c_pc = "load"
  /\ c_k > Len(p_schema)
  /\ c_pc' = "returned"
  /\ UNCHANGED << c_T, c_names, c_heap, c_input, c_cleaned, c_first, c_pass, c_k,
                  disk_csv, disk_schema, p_schema, p_loaded, p_raised, p_exists, p_reads,
                  p_saves >>
  /\ UNCHANGED not_c

\* The mappings of a later save_cleaned: tables that differ from everything
\* saved before, one of them without rows.
LaterFrames ==
  { Frame(<< "city", "date" >>, << "object", "datetime64" >>,
          << << Str("y", 0), Ts("2017-01-05 00:00:00") >> >>),
    Frame(<< "city" >>, << "object" >>, <<>>) }

LaterMappings ==
  UNION { [ keys -> LaterFrames ] : keys \in SUBSET { CleanNames[k] : k \in 1..Len(CleanNames) } }

\* save_cleaned is called again on the same out_dir, with another mapping.
SaveAgain ==
  /\ c_pc = "saved"
  /\ p_saves < MaxSaves
  /\ \E m \in LaterMappings :
       /\ c_names' = NamesInOrder(DOMAIN m, 1)
       /\ c_heap' = c_heap \o [ k \in 1..Len(c_names') |-> m[c_names'[k]] ]
       /\ c_cleaned' = [ n \in DOMAIN m |->
                         Len(c_heap) + (CHOOSE k \in 1..Len(c_names') : c_names'[k] = n) ]
       /\ p_schema' = SchemaOf(c_names', c_cleaned', c_heap')
       /\ disk_csv' = [ n \in DiskNames |-> IF n \in DOMAIN m THEN ToCsv(m[n]) ELSE disk_csv[n] ]
  /\ disk_schema' = SchemaRewritten(disk_schema, p_schema')
  /\ p_saves' = p_saves + 1
  /\ UNCHANGED << c_T, c_input, c_first, c_pass, c_pc, c_k,
                  p_loaded, p_raised, p_exists, p_reads >>
  /\ UNCHANGED not_c

\* clean, and clean of its result.
CNext ==
  \/ CleanTable
  \/ CleanReturn
  \/ CleanAgain

\* clean, save_cleaned, load_cleaned, and what happens to out_dir between them.
PNext ==
  \/ CleanTable
  \/ CleanReturn
  \/ SaveCleaned
  \/ RemoveCsv
  \/ RemoveSchema
  \/ LoadMissingSchema
  \/ LoadSchema
  \/ LoadSkip
  \/ LoadRead
  \/ LoadReturn

CIdle ==
  /\ c_T = << >>
  /\ c_names = << >>
  /\ c_heap = << >>
  /\ c_input = << >>
  /\ c_cleaned = << >>
  /\ c_first = << >>
  /\ c_pass = 0
  /\ c_pc = "idle"
  /\ c_k = 0
  /\ disk_csv = EmptyDisk
  /\ disk_schema = NoSchemaFile
  /\ p_schema = << >>
  /\ p_loaded = << >>
  /\ p_raised = "none"
  /\ p_exists = << >>
  /\ p_reads = << >>
  /\ p_saves = 0

\* ------------------------------------------------------------------ properties of clean

\* ------------------------------------------------------------------ properties of clean
\* The frame the table name has in a mapping key -> object.
FrameIn(mapping, name) == c_heap[mapping[name]]

CleanedOnce == c_pc = "cleaned" /\ c_pass = 1

CleanedTwice == c_pc = "cleaned" /\ c_pass = 2

\* The cells of column j, from the first row to the last.
ColumnCells(df, j) == [ i \in 1..Len(df.rows) |-> df.rows[i][j] ]

\* C15: clean is idempotent. When clean has been applied to the mapping that
\* clean returned, the second result has the tables of the first and every
\* table has the same columns, dtypes and cells as in the first result.
C15_CleanIdempotent ==
  CleanedTwice =>
    /\ DOMAIN c_cleaned = DOMAIN c_first
    /\ DOMAIN c_first = DOMAIN c_T
    /\ \A n \in DOMAIN c_first :
         /\ FrameIn(c_cleaned, n).cols = c_first[n].cols
         /\ FrameIn(c_cleaned, n).dtypes = c_first[n].dtypes
         /\ \A j \in 1..Len(c_first[n].cols) :
              ColumnCells(FrameIn(c_cleaned, n), j) = ColumnCells(c_first[n], j)
         /\ FrameIn(c_cleaned, n) = c_first[n]

\* Both tables cleaned twice: the holiday alias held a padded date text and a
\* text that is no date, the other table a padded text beside other dtypes;
\* the first clean changed both.
C15_Witness ==
  /\ CleanedTwice
  /\ DOMAIN c_T = { "olist_orders", "Holidays" }
  /\ c_T["Holidays"].rows = << << Str("x", 1), Str("2017-01-05 10:00:00", 1) >>,
                               << NaN, Str("not a date", 0) >> >>
  /\ c_first["Holidays"].rows = << << Str("x", 0), Ts("2017-01-05 00:00:00") >>, << NaN, NaT >> >>
  /\ c_T["olist_orders"].rows = << << Str("x", 2) >> >>
  /\ c_first["olist_orders"].rows = << << Str("x", 0) >> >>
  /\ FrameIn(c_cleaned, "Holidays") = c_first["Holidays"]

\* The objects of the mapping given to the first clean.
Originals == 1..Len(c_names)

\* The known date columns of a table that has rows and columns.
ParsedColumn(df, j) == ~IsEmptyFrame(df) /\ df.cols[j] \in DATE_COLUMNS_KNOWN

\* C16: clean changes value representations only. The tables given to clean
\* stay as they were and the tables returned are other objects; the result has
\* the names of the input and every table its row count and its columns in
\* their order; a column that is neither of dtype object nor a known date
\* column keeps dtype and cells; in a parsed date column a text that is no
\* date, and a missing value, become NaT in their row.
C16_OnlyRepresentations ==
  /\ \A n \in DOMAIN c_T : c_heap[CHOOSE k \in Originals : c_names[k] = n] = c_T[n]
  /\ c_pass = 2 => \A n \in DOMAIN c_first : FrameIn(c_input, n) = c_first[n]
  /\ \A n \in DOMAIN c_cleaned : \A m \in DOMAIN c_input : c_cleaned[n] # c_input[m]
  /\ c_pc = "cleaned" =>
       /\ DOMAIN c_cleaned = DOMAIN c_input
       /\ \A n \in DOMAIN c_input :
            /\ Len(FrameIn(c_cleaned, n).rows) = Len(FrameIn(c_input, n).rows)
            /\ FrameIn(c_cleaned, n).cols = FrameIn(c_input, n).cols
            /\ \A j \in 1..Len(FrameIn(c_input, n).cols) :
                 /\ (FrameIn(c_input, n).dtypes[j] # "object"
                       /\ FrameIn(c_input, n).cols[j] \notin DATE_COLUMNS_KNOWN) =>
                      /\ FrameIn(c_cleaned, n).dtypes[j] = FrameIn(c_input, n).dtypes[j]
                      /\ ColumnCells(FrameIn(c_cleaned, n), j) = ColumnCells(FrameIn(c_input, n), j)
                 /\ ParsedColumn(FrameIn(c_input, n), j) =>
                      \A i \in 1..Len(FrameIn(c_input, n).rows) :
                        (\/ FrameIn(c_input, n).rows[i][j].t = "nan"
                         \/ /\ FrameIn(c_input, n).rows[i][j].t = "str"
                            /\ FrameIn(c_input, n).rows[i][j].v \notin DateTexts) =>
                          FrameIn(c_cleaned, n).rows[i][j] = NaT

\* A first clean has returned: a table with a text that is no date kept its
\* two rows, a table of four dtypes kept its integer and timestamp columns, and
\* the padded text of the frame given in is still padded.
C16_Witness ==
  /\ CleanedOnce
  /\ DOMAIN c_T = { "olist_orders", "Holidays" }
  /\ c_T["Holidays"].rows = << << Str("x", 1), Str("2017-01-05 10:00:00", 1) >>,
                               << NaN, Str("not a date", 0) >> >>
  /\ c_T["olist_orders"].cols = << "qty", "created_at", "order_approved_at", "city" >>
  /\ FrameIn(c_input, "Holidays").rows[1][1] = Str("x", 1)
  /\ FrameIn(c_cleaned, "Holidays").rows[1][1] = Str("x", 0)
  /\ FrameIn(c_cleaned, "Holidays").rows[2][2] = NaT
  /\ FrameIn(c_cleaned, "olist_orders").rows[1][1] = Integer("5")
  /\ FrameIn(c_cleaned, "olist_orders").dtypes = << "int64", "datetime64", "datetime64", "object" >>

\* ------------------------------------------------------------------ properties of save_cleaned and load_cleaned
\* The columns of dtype datetime64.
TimestampColumns(df) == { df.cols[j] : j \in { i \in 1..Len(df.cols) : df.dtypes[i] = "datetime64" } }

\* The date columns _schema.json lists for the table name.
ListedFor(schema, name) ==
  UNION { { schema.tables[k].date_cols[i] : i \in 1..Len(schema.tables[k].date_cols) } :
          k \in { i \in 1..Len(schema.tables) : schema.tables[i].name = name } }

ListedTables(schema) == { schema.tables[k].name : k \in 1..Len(schema.tables) }

\* load_cleaned has returned, after save_cleaned(clean(T)) wrote out_dir.
LoadedAfterSave == c_pc = "returned" /\ p_saves = 1

\* C17: after save_cleaned(clean(T)) the sidecar lists, for every table, the
\* columns that are of timestamp type in the table saved, no other; and
\* load_cleaned gives back those columns, no other, as timestamps with the
\* values saved.
C17_DateTypingRoundTrip ==
  /\ (c_pc = "saved" /\ disk_schema.present) =>
       \A n \in DOMAIN c_cleaned :
         ListedFor(disk_schema, n) = TimestampColumns(FrameIn(c_cleaned, n))
  /\ LoadedAfterSave =>
       \A n \in DOMAIN p_loaded :
         /\ TimestampColumns(p_loaded[n]) = TimestampColumns(FrameIn(c_cleaned, n))
         /\ \A j \in 1..Len(p_loaded[n].cols) :
              p_loaded[n].dtypes[j] = "datetime64" =>
                ColumnCells(p_loaded[n], j) = ColumnCells(FrameIn(c_cleaned, n), j)

\* The listed tables whose file is in out_dir.
ListedAndPresent == { n \in ListedTables(disk_schema) : disk_csv[n].present }

LoadEnded == c_pc \in {"done", "returned"}

LastSaved == DOMAIN c_cleaned

\* The text to_csv writes for every cell of a frame, row by row.
TextOf(df) ==
  [ i \in 1..Len(df.rows) |-> [ j \in 1..Len(df.cols) |-> ToCsvField(df.rows[i][j]) ] ]

vars == << qvars, lvars, evars, cvars >>

\* A component at rest while the other runs.
QIdle ==
  /\ sql_file = "present"
  /\ script = <<>>
  /\ params = NoParams
  /\ store = [v |-> "absent", w |-> "absent"]
  /\ store0 = store
  /\ pc = "idle"
  /\ stmts = <<>>
  /\ last_select_idx = 0
  /\ fallback_view = "none"
  /\ idx = 0
  /\ conn_open = 0
  /\ conn_opened = 0
  /\ sent = <<>>
  /\ result = NoneValue
  /\ raised = NoError

LIdle ==
  /\ arg1 = "dict"
  /\ arg2 = "Engine"
  /\ l_tables = <<>>
  /\ l_pc = "idle"
  /\ l_k = 0
  /\ l_i = 0
  /\ db_tables = NoTables
  /\ db_views = {}
  /\ txn_views = {}
  /\ db0_tables = NoTables
  /\ db0_views = {}
  /\ l_raised = "none"
  /\ l_frames = << >>
  /\ db_rows = RowsBefore(NoTables)
  /\ db0_rows = db_rows
  /\ l_history = << >>

\* One call of runQuery on its database.
RunQueryInit == QInit /\ LIdle /\ EIdle /\ CIdle

\* One call of load on its database.
LoadInit == LInit /\ QIdle /\ EIdle /\ CIdle

\* Calls of load one after another on one database.
LoadSeqInit == LSeqInit /\ QIdle /\ EIdle /\ CIdle

\* One call of extract.
ExtractInit == EInit /\ QIdle /\ LIdle /\ CIdle

\* clean and clean again.
CleanInit == CInit /\ QIdle /\ LIdle /\ EIdle

\* clean, save_cleaned and load_cleaned on one output directory.
PersistInit == PInit /\ QIdle /\ LIdle /\ EIdle

\* Calls of save_cleaned one after another on one output directory, then load_cleaned.
SaveSeqInit == PInit /\ QIdle /\ LIdle /\ EIdle

\* run_extract_load: extract, then load of what it returned on the engine.
PipelineInit == EInit /\ EngineWaiting /\ QIdle /\ CIdle

Init ==
  \/ RunQueryInit
  \/ LoadInit
  \/ LoadSeqInit
  \/ ExtractInit
  \/ CleanInit
  \/ PersistInit
  \/ PipelineInit

Next ==
  \/ QNext
  \/ LNext
  \/ LoadAgain
  \/ ENext
  \/ CleanAgain
  \/ PNext
  \/ SaveAgain
  \/ RunLoad

Spec == Init /\ [][Next]_vars

SpecRunQuery == RunQueryInit /\ [][QNext]_vars

SpecLoad == LoadInit /\ [][LNext]_vars

LSeqNext ==
  \/ LNext
  \/ LoadAgain

SpecLoadSeq == LoadSeqInit /\ [][LSeqNext]_vars

SpecExtract == ExtractInit /\ [][ENext]_vars

SpecClean == CleanInit /\ [][CNext]_vars

SpecPersist == PersistInit /\ [][PNext]_vars

SaveSeqNext ==
  \/ PNext
  \/ SaveAgain

SpecSaveSeq == SaveSeqInit /\ [][SaveSeqNext]_vars

PipelineNext ==
  \/ ENext
  \/ RunLoad
  \/ LoadResolve
  \/ WriteTable
  \/ WriteTableFails
  \/ BeginViews
  \/ CreateView
  \/ CreateViewFails
  \/ CommitViews

SpecPipeline == PipelineInit /\ [][PipelineNext]_vars

====
